---- MODULE Spec2Model ----
(***************************************************************************)
(* Model of the RegretMarket program (programs/regret_program): the        *)
(* instruction handlers of lib.rs and the arithmetic of state/position.rs  *)
(* and price_update.rs.                                                    *)
(*                                                                         *)
(* Widths.  TLC computes with 32-bit integers, so the program's machine    *)
(* words are modelled at reduced width: u64 is the range 0..U64_MAX,       *)
(* u128 the range 0..U128_MAX with U128_MAX >= U64_MAX * U64_MAX (as in    *)
(* the program a product of two u64 always fits a u128, while a further    *)
(* multiplication by PRECISION may not).                                   *)
(* The fixed-point constants are reduced with the words and keep the       *)
(* order of the source's constants.  Every checked operation overflows     *)
(* against the modelled width exactly where the source's overflows         *)
(* against the machine width.                                              *)
(*                                                                         *)
(* A failed checked operation is the value ERR; the `?` chains of the      *)
(* source, which all map to one error code per chain, propagate it.        *)
(***************************************************************************)
EXTENDS Integers, Sequences, FiniteSets, TLC

\* ---------------------------------------------------------------- widths
U64_MAX == 32767
U128_MAX == 1073741823

ERR == -1

\* ------------------------------------------------------------- constants
PRECISION == 10
BASIS_POINTS == 100
MIN_COLLATERAL == 20
MAX_COLLATERAL == 2000
MIN_POSITION_VALUE == 20
MAX_POSITION_VALUE == 8000
MAX_SAFE_PRICE == U64_MAX \div 200
SLOTS_PER_8_HOURS == 8
PRICE_DECIMALS == 1
MAX_CONFIDENCE_BPS == 1
REGISTER_BALANCE == 500
CLAIM_AMOUNT == 50
POOL_INITIAL_DEPOSIT == 12000
FUND_AMOUNT == 2000
FUNDING_RATE_BPS == 10

\* ------------------------------------------------- fixed-point kernel
\* u128::checked_mul
CheckedMul(a, b) ==
  IF a = ERR \/ b = ERR THEN ERR
  ELSE IF a = 0 \/ b = 0 THEN 0
  ELSE IF a > U128_MAX \div b THEN ERR
  ELSE a * b

\* u128::checked_div
CheckedDiv(a, b) ==
  IF a = ERR \/ b = ERR THEN ERR
  ELSE IF b = 0 THEN ERR
  ELSE a \div b

\* u128::checked_sub
CheckedSub(a, b) ==
  IF a = ERR \/ b = ERR THEN ERR
  ELSE IF b > a THEN ERR
  ELSE a - b

\* u64::checked_add
CheckedAdd64(a, b) ==
  IF a = ERR \/ b = ERR THEN ERR
  ELSE IF a + b > U64_MAX THEN ERR
  ELSE a + b

\* u64::checked_sub
CheckedSub64(a, b) ==
  IF a = ERR \/ b = ERR THEN ERR
  ELSE IF b > a THEN ERR
  ELSE a - b

\* u64::saturating_sub
SaturatingSub(a, b) == IF b > a THEN 0 ELSE a - b

\* u128::checked_add
CheckedAdd(a, b) ==
  IF a = ERR \/ b = ERR THEN ERR
  ELSE IF a > U128_MAX - b THEN ERR
  ELSE a + b

\* u64::try_from(u128)
TryU64(x) == IF x = ERR \/ x > U64_MAX THEN ERR ELSE x

RECURSIVE Pow10(_)
\* 10_u128.pow(e), for the exponents whose power fits the word
Pow10(e) == IF e = 0 THEN 1 ELSE 10 * Pow10(e - 1)

\* The program aborts: an arithmetic overflow in a build with overflow checks.
PANIC == -2

RECURSIVE CheckedPow10(_, _)
\* acc * 10^e, or ERR when it does not fit the u128
CheckedPow10(acc, e) ==
  IF e = 0 \/ acc = ERR THEN acc ELSE CheckedPow10(CheckedMul(acc, 10), e - 1)

\* 10^e, or ERR when it does not fit the u128
Pow10Checked(e) == CheckedPow10(1, e)

\* a + b modulo 2^128 (the word's modulus), for a and b below it
WrappingAdd(a, b) ==
  IF a > U128_MAX - b THEN a - (U128_MAX - b) - 1 ELSE a + b

\* a + 4 * a modulo 2^128, given a and 2 * a modulo 2^128
WrappingTimes5(a, a2) == WrappingAdd(a, WrappingAdd(a2, a2))

\* 10 * a modulo 2^128: 5 * (2 * a)
WrappingTimes10(a) == WrappingTimes5(WrappingAdd(a, a), WrappingAdd(WrappingAdd(a, a), WrappingAdd(a, a)))

RECURSIVE WrappedPow10(_, _)
\* acc * 10^e modulo 2^128
WrappedPow10(acc, e) ==
  IF e = 0 \/ acc = 0 THEN acc ELSE WrappedPow10(WrappingTimes10(acc), e - 1)

\* 10^e modulo 2^128: what pow returns on overflow in a build without overflow
\* checks
Pow10Wrapped(e) == WrappedPow10(1, e)

\* What 10_u128.pow(e) can produce: the power when it fits; when it does not,
\* a panic or the wrapped power, as the build has overflow checks or not.
Pow10Outcomes(e) ==
  IF Pow10Checked(e) # ERR THEN {Pow10Checked(e)}
  ELSE {PANIC, Pow10Wrapped(e)}

\* (value * bps * PRECISION / BASIS_POINTS) / PRECISION, narrowed to u64
BpsOf(value, bps) ==
  TryU64(CheckedDiv(CheckedDiv(CheckedMul(CheckedMul(value, bps), PRECISION),
                               BASIS_POINTS), PRECISION))

\* ------------------------------------------------------ validation layer
validate_position_value(v) ==
  IF v < MIN_POSITION_VALUE THEN "PositionValueTooLow"
  ELSE IF v > MAX_POSITION_VALUE THEN "PositionValueTooHigh"
  ELSE "Ok"

validate_collateral(c) ==
  IF c < MIN_COLLATERAL THEN "CollateralTooLow"
  ELSE IF c > MAX_COLLATERAL THEN "CollateralTooHigh"
  ELSE "Ok"

validate_price(p) ==
  IF ~(p > 0) THEN "InvalidPrice"
  ELSE IF p > MAX_SAFE_PRICE THEN "PriceTooHigh"
  ELSE "Ok"

validate_position_size(s) ==
  IF ~(s > 0) THEN "InvalidPositionSize" ELSE "Ok"

\* ------------------------------------------------------- position sizing
SizingErr(e) ==
  [err |-> e, actual_size |-> 0, leverage_bps |-> 0, position_value |-> 0,
   target_price |-> 0]

\* variant of LeverageBps: the leverage of the position value rounded down to
\* whole units
LeverageBps_Rounded(position_value_scaled, collateral) ==
  TryU64(CheckedDiv(CheckedMul(CheckedDiv(position_value_scaled, PRECISION),
                               BASIS_POINTS), collateral))

\* leverage in basis points, from the scaled position value
LeverageBps(position_value_scaled, collateral) ==
  TryU64(CheckedDiv(CheckedDiv(CheckedMul(position_value_scaled, BASIS_POINTS),
                               collateral), PRECISION))

\* The arithmetic of calculate_long_position after its price checks.
LongSizingWithDivisor(desired_entry_price, desired_size, current_price, target_price, collateral, token_divisor) ==
  LET target_profit_range == CheckedSub(target_price, desired_entry_price)
      price_movement == CheckedSub(target_price, current_price)
  IN IF target_profit_range = ERR \/ price_movement = ERR
       THEN SizingErr("MathOverflow")
     ELSE IF price_movement = 0 THEN SizingErr("InvalidTargetPrice")
     ELSE
       LET actual_size_scaled ==
             CheckedDiv(CheckedMul(CheckedMul(desired_size, target_profit_range),
                                   PRECISION), price_movement)
           actual_size == TryU64(CheckedDiv(actual_size_scaled, PRECISION))
       IN IF actual_size = ERR THEN SizingErr("MathOverflow")
          ELSE IF token_divisor = PANIC THEN SizingErr("Panic")
          ELSE
            LET position_value_scaled ==
                  CheckedDiv(CheckedMul(CheckedMul(actual_size, current_price),
                                        PRECISION), token_divisor)
                position_value ==
                  TryU64(CheckedDiv(position_value_scaled, PRECISION))
            IN IF position_value = ERR THEN SizingErr("MathOverflow")
               ELSE
                 LET leverage_bps ==
                       LeverageBps(position_value_scaled, collateral)
                 IN IF leverage_bps = ERR THEN SizingErr("MathOverflow")
                    ELSE [err |-> "Ok", actual_size |-> actual_size,
                          leverage_bps |-> leverage_bps,
                          position_value |-> position_value,
                          target_price |-> target_price]

\* The arithmetic of calculate_long_position after its price checks, for
\* token decimals whose power of ten fits the u128.
LongSizing(desired_entry_price, desired_size, current_price, target_price, collateral, token_decimals) ==
  LongSizingWithDivisor(desired_entry_price, desired_size, current_price,
                        target_price, collateral, Pow10(token_decimals))

\* calculate_long_position; `token_divisor` is what 10_u128.pow returned
LongPositionWithDivisor(desired_entry_price, desired_size, current_price, target_price, collateral, token_divisor) ==
  IF ~(current_price > desired_entry_price)
    THEN SizingErr("InvalidPriceForLong")
  ELSE IF ~(target_price > current_price) THEN SizingErr("InvalidTargetPrice")
  ELSE IF desired_size = 0 \/ collateral = 0 THEN SizingErr("InvalidInput")
  ELSE LongSizingWithDivisor(desired_entry_price, desired_size, current_price,
                             target_price, collateral, token_divisor)

\* variant of calculate_long_position: the entry price is not compared with
\* the current price
calculate_long_position_AnyEntry(desired_entry_price, desired_size, current_price, target_price, collateral, token_decimals) ==
  IF ~(target_price > current_price) THEN SizingErr("InvalidTargetPrice")
  ELSE IF desired_size = 0 \/ collateral = 0 THEN SizingErr("InvalidInput")
  ELSE LongSizing(desired_entry_price, desired_size, current_price,
                  target_price, collateral, token_decimals)

\* calculate_long_position, for token decimals whose power of ten fits the
\* u128
calculate_long_position(desired_entry_price, desired_size, current_price, target_price, collateral, token_decimals) ==
  LongPositionWithDivisor(desired_entry_price, desired_size, current_price,
                          target_price, collateral, Pow10(token_decimals))

\* The arithmetic of calculate_short_position after its price checks.
ShortSizing(desired_entry_price, desired_size, current_price, target_price, collateral, token_decimals) ==
  LET target_profit_range == CheckedSub(desired_entry_price, target_price)
      price_movement == CheckedSub(current_price, target_price)
  IN IF target_profit_range = ERR \/ price_movement = ERR
       THEN SizingErr("MathOverflow")
     ELSE IF price_movement = 0 THEN SizingErr("InvalidTargetPrice")
     ELSE
       LET actual_size_scaled ==
             CheckedDiv(CheckedMul(CheckedMul(desired_size, target_profit_range),
                                   PRECISION), price_movement)
           actual_size == TryU64(CheckedDiv(actual_size_scaled, PRECISION))
       IN IF actual_size = ERR THEN SizingErr("MathOverflow")
          ELSE
            LET token_divisor == Pow10(token_decimals)
                position_value_scaled ==
                  CheckedDiv(CheckedMul(CheckedMul(actual_size, current_price),
                                        PRECISION), token_divisor)
                position_value ==
                  TryU64(CheckedDiv(position_value_scaled, PRECISION))
            IN IF position_value = ERR THEN SizingErr("MathOverflow")
               ELSE
                 LET leverage_bps ==
                       LeverageBps(position_value_scaled, collateral)
                 IN IF leverage_bps = ERR THEN SizingErr("MathOverflow")
                    ELSE [err |-> "Ok", actual_size |-> actual_size,
                          leverage_bps |-> leverage_bps,
                          position_value |-> position_value,
                          target_price |-> target_price]

calculate_short_position(desired_entry_price, desired_size, current_price, target_price, collateral, token_decimals) ==
  IF ~(current_price < desired_entry_price)
    THEN SizingErr("InvalidPriceForShort")
  ELSE IF ~(target_price < desired_entry_price)
    THEN SizingErr("InvalidTargetPrice")
  ELSE IF desired_size = 0 \/ collateral = 0 THEN SizingErr("InvalidInput")
  ELSE ShortSizing(desired_entry_price, desired_size, current_price,
                   target_price, collateral, token_decimals)

\* ------------------------------------------------------- funding accrual
FundingWithDivisor(actual_size, current_price, funding_rate_bps, slots_elapsed, token_divisor) ==
  IF actual_size = 0 \/ current_price = 0 \/ funding_rate_bps = 0
     \/ slots_elapsed = 0
    THEN [err |-> "Ok", funding_amount |-> 0,
          is_payment |-> funding_rate_bps > 0]
  ELSE IF CheckedMul(CheckedMul(actual_size, current_price), PRECISION) = ERR
    THEN [err |-> "MathOverflow", funding_amount |-> 0,
          is_payment |-> funding_rate_bps > 0]
  ELSE IF token_divisor = PANIC
    THEN [err |-> "Panic", funding_amount |-> 0,
          is_payment |-> funding_rate_bps > 0]
  ELSE
    LET notional_value_scaled ==
          CheckedDiv(CheckedMul(CheckedMul(actual_size, current_price),
                                PRECISION), token_divisor)
        funding_periods_scaled ==
          CheckedDiv(CheckedMul(slots_elapsed, PRECISION), SLOTS_PER_8_HOURS)
        funding_rate_abs ==
          IF funding_rate_bps < 0 THEN 0 - funding_rate_bps
          ELSE funding_rate_bps
        funding_amount_scaled ==
          CheckedMul(CheckedMul(notional_value_scaled, funding_rate_abs),
                     funding_periods_scaled)
        divisor == CheckedMul(CheckedMul(BASIS_POINTS, PRECISION), PRECISION)
        funding_amount == TryU64(CheckedDiv(funding_amount_scaled, divisor))
    IN IF funding_amount = ERR
         THEN [err |-> "MathOverflow", funding_amount |-> 0,
               is_payment |-> funding_rate_bps > 0]
       ELSE [err |-> "Ok", funding_amount |-> funding_amount,
             is_payment |-> funding_rate_bps > 0]

\* calculate_funding_payment, for token decimals whose power of ten fits the
\* u128
calculate_funding_payment(actual_size, current_price, funding_rate_bps, slots_elapsed, token_decimals) ==
  FundingWithDivisor(actual_size, current_price, funding_rate_bps,
                     slots_elapsed, Pow10(token_decimals))

\* variant of FundingApplied: last_funding_slot is not advanced
FundingApplied_NoWatermark(position, current_slot, funding) ==
  LET paid == IF funding.is_payment
                THEN CheckedAdd64(position.cumulative_funding_paid,
                                  funding.funding_amount)
              ELSE SaturatingSub(position.cumulative_funding_paid,
                                 funding.funding_amount)
  IN IF funding.err # "Ok"
       THEN [err |-> funding.err, position |-> position, funding_amount |-> 0]
     ELSE IF paid = ERR
       THEN [err |-> "MathOverflow", position |-> position,
             funding_amount |-> funding.funding_amount]
     ELSE [err |-> "Ok",
           position |-> [position EXCEPT !.cumulative_funding_paid = paid],
           funding_amount |-> funding.funding_amount]

\* Position::update_funding once the funding payment is known: the result
\* and the position as the call leaves it in memory, whether it returns Ok or
\* an error.
FundingApplied(position, current_slot, funding) ==
  IF funding.err # "Ok"
    THEN [err |-> funding.err, position |-> position, funding_amount |-> 0]
  ELSE IF funding.is_payment
    THEN IF CheckedAdd64(position.cumulative_funding_paid,
                         funding.funding_amount) = ERR
           THEN [err |-> "MathOverflow",
                 position |->
                   [position EXCEPT !.last_funding_slot = current_slot],
                 funding_amount |-> funding.funding_amount]
         ELSE [err |-> "Ok",
               position |->
                 [position EXCEPT
                    !.last_funding_slot = current_slot,
                    !.cumulative_funding_paid =
                      CheckedAdd64(@, funding.funding_amount)],
               funding_amount |-> funding.funding_amount]
  ELSE [err |-> "Ok",
        position |->
          [position EXCEPT
             !.last_funding_slot = current_slot,
             !.cumulative_funding_paid =
               SaturatingSub(@, funding.funding_amount)],
        funding_amount |-> funding.funding_amount]

\* variant of update_funding: the slots elapsed are counted from slot 0
update_funding_FromZero(position, current_slot, current_price, funding_rate_bps, token_decimals) ==
  FundingApplied(position, current_slot,
    calculate_funding_payment(position.actual_size, current_price,
      funding_rate_bps, current_slot, token_decimals))

\* Position::update_funding
update_funding(position, current_slot, current_price, funding_rate_bps, token_decimals) ==
  FundingApplied(position, current_slot,
    calculate_funding_payment(position.actual_size, current_price,
      funding_rate_bps,
      SaturatingSub(current_slot, position.last_funding_slot),
      token_decimals))

\* ------------------------------------------------------------------- PnL
\* variant of NetIsProfit: a net PnL of zero counts as a profit
NetIsProfit_OrZero(is_profit, net_pnl) ==
  IF is_profit THEN net_pnl >= 0 ELSE FALSE

\* PnLResult.is_profit: a profit only if the net PnL is strictly positive
NetIsProfit(is_profit, net_pnl) == IF is_profit THEN net_pnl > 0 ELSE FALSE

\* variant of GrossIsProfit: equal values are a loss
GrossIsProfit_Strict(is_long, current_value, entry_value) ==
  IF is_long THEN current_value > entry_value ELSE entry_value > current_value

\* calculate_pnl's gross profit flag: a long gains when the value has not
\* fallen, a short when it has not risen
GrossIsProfit(is_long, current_value, entry_value) ==
  IF is_long THEN current_value >= entry_value ELSE entry_value >= current_value

PnlWithDivisor(position, current_price, token_divisor) ==
  IF position.actual_size = 0
    THEN [err |-> "Ok", gross_pnl |-> 0, net_pnl |-> 0, is_profit |-> FALSE]
  ELSE IF token_divisor = PANIC
    THEN [err |-> "Panic", gross_pnl |-> 0, net_pnl |-> 0, is_profit |-> FALSE]
  ELSE
    LET current_value ==
          CheckedDiv(CheckedMul(position.actual_size, current_price),
                     token_divisor)
        entry_value ==
          CheckedDiv(CheckedMul(position.actual_size,
                                position.actual_entered_price), token_divisor)
        PnlErr == [err |-> "MathOverflow", gross_pnl |-> 0, net_pnl |-> 0,
                   is_profit |-> FALSE]
    IN IF current_value = ERR \/ entry_value = ERR THEN PnlErr
       ELSE
         LET is_profit ==
               GrossIsProfit(position.is_long, current_value, entry_value)
             gross_pnl_u128 ==
               IF current_value >= entry_value
                 THEN current_value - entry_value
               ELSE entry_value - current_value
             gross_pnl == TryU64(gross_pnl_u128)
         IN IF gross_pnl = ERR THEN PnlErr
            ELSE
              LET net_pnl ==
                    IF is_profit
                      THEN SaturatingSub(gross_pnl,
                                         position.cumulative_funding_paid)
                    ELSE CheckedAdd64(gross_pnl,
                                      position.cumulative_funding_paid)
              IN IF net_pnl = ERR THEN PnlErr
                 ELSE [err |-> "Ok", gross_pnl |-> gross_pnl,
                       net_pnl |-> net_pnl,
                       is_profit |-> NetIsProfit(is_profit, net_pnl)]

\* calculate_pnl, for token decimals whose power of ten fits the u128
calculate_pnl(position, current_price, token_decimals) ==
  PnlWithDivisor(position, current_price, Pow10(token_decimals))

\* calculate_health_ratio, once the equity is known to be above 0
HealthOfEquity(position, current_price, maintainance_margin, token_decimals, equity) ==
  LET token_divisor == Pow10(token_decimals)
      position_value_scaled ==
        CheckedDiv(CheckedMul(CheckedMul(position.actual_size, current_price),
                              PRECISION), token_divisor)
      required_margin_scaled ==
        CheckedDiv(CheckedMul(position_value_scaled, maintainance_margin),
                   BASIS_POINTS)
      required_margin == CheckedDiv(required_margin_scaled, PRECISION)
      equity_scaled == CheckedMul(equity, PRECISION)
      health_ratio_scaled ==
        CheckedDiv(CheckedMul(equity_scaled, BASIS_POINTS),
                   required_margin_scaled)
      health_ratio == TryU64(CheckedDiv(health_ratio_scaled, PRECISION))
  IN IF required_margin = ERR
       THEN [err |-> "MathOverflow", health_ratio |-> 0]
     ELSE IF required_margin = 0 THEN [err |-> "Ok", health_ratio |-> U64_MAX]
     ELSE IF health_ratio = ERR
       THEN [err |-> "MathOverflow", health_ratio |-> 0]
     ELSE [err |-> "Ok", health_ratio |-> health_ratio]

\* calculate_health_ratio's equity: the collateral plus a net profit, or less
\* a net loss
Equity(position, pnl_result) ==
  IF pnl_result.is_profit
    THEN CheckedAdd(position.collateral, pnl_result.net_pnl)
  ELSE SaturatingSub(position.collateral, pnl_result.net_pnl)

\* calculate_health_ratio, once the PnL is computed
HealthOfPnl(position, current_price, maintainance_margin, token_decimals, pnl_result) ==
  IF pnl_result.err # "Ok" THEN [err |-> pnl_result.err, health_ratio |-> 0]
  ELSE IF Equity(position, pnl_result) = ERR
    THEN [err |-> "MathOverflow", health_ratio |-> 0]
  ELSE IF Equity(position, pnl_result) = 0
    THEN [err |-> "Ok", health_ratio |-> 0]
  ELSE HealthOfEquity(position, current_price, maintainance_margin,
                      token_decimals, Equity(position, pnl_result))

calculate_health_ratio(position, current_price, cfg, token_decimals) ==
  IF position.actual_size = 0 \/ current_price = 0
    THEN [err |-> "Ok", health_ratio |-> U64_MAX]
  ELSE HealthOfPnl(position, current_price, cfg.maintainance_margin,
                   token_decimals,
                   calculate_pnl(position, current_price, token_decimals))

\* RebalanceResult of a position that is not rebalanced
NoRebalance(position) ==
  [err |-> "Ok", should_rebalance |-> FALSE,
   new_actual_size |-> position.actual_size,
   new_target_price |-> position.current_target_price,
   new_leverage_bps |-> 0, profit_realized |-> 0, excess_to_insurance |-> 0]

RebalanceErr(err) ==
  [err |-> err, should_rebalance |-> FALSE, new_actual_size |-> 0,
   new_target_price |-> 0, new_leverage_bps |-> 0, profit_realized |-> 0,
   excess_to_insurance |-> 0]

\* calculate_rebalance_with_new_target: the position is in cycle, its target
\* reached
TargetReached(is_long, current_price, current_target_price) ==
  IF is_long THEN current_price >= current_target_price
  ELSE current_price <= current_target_price

\* the profit of the leveraged position: what its value has gained (long) or
\* lost (short) since the entry, not below 0
ActualProfit(position, current_price, token_divisor) ==
  LET current_value ==
        CheckedDiv(CheckedMul(position.actual_size, current_price),
                   token_divisor)
      entry_value ==
        CheckedDiv(CheckedMul(position.actual_size,
                              position.actual_entered_price), token_divisor)
  IN IF current_value = ERR \/ entry_value = ERR THEN ERR
     ELSE IF position.is_long
       THEN TryU64(SaturatingSub(current_value, entry_value))
     ELSE TryU64(SaturatingSub(entry_value, current_value))

\* the profit the trader expects: the desired size on the move of the price
\* from the desired entry price
VirtualProfit(position, current_price, token_divisor) ==
  LET price_diff ==
        IF position.is_long
          THEN SaturatingSub(current_price, position.desired_entry_price)
        ELSE SaturatingSub(position.desired_entry_price, current_price)
  IN TryU64(CheckedDiv(CheckedMul(position.desired_size, price_diff),
                       token_divisor))

\* variant of NewTargetPrice: the price moves by twice the change
NewTargetPrice_Twice(is_long, current_price, price_change) ==
  IF price_change = ERR THEN ERR
  ELSE IF is_long THEN CheckedAdd64(current_price, 2 * price_change)
  ELSE CheckedSub64(current_price, 2 * price_change)

\* the new target: the price plus the change for a long, less it for a short
NewTargetPrice(is_long, current_price, price_change) ==
  IF price_change = ERR THEN ERR
  ELSE IF is_long THEN CheckedAdd64(current_price, price_change)
  ELSE CheckedSub64(current_price, price_change)

\* calculate_rebalance_with_new_target, from the sizing of the next cycle on
RebalanceSized(actual_profit, virtual_profit, new_target_price, new_params) ==
  IF new_params.err # "Ok" THEN RebalanceErr(new_params.err)
  ELSE [err |-> "Ok", should_rebalance |-> TRUE,
        new_actual_size |-> new_params.actual_size,
        new_target_price |-> new_target_price,
        new_leverage_bps |-> new_params.leverage_bps,
        profit_realized |-> actual_profit,
        excess_to_insurance |-> SaturatingSub(actual_profit, virtual_profit)]

\* calculate_rebalance_with_new_target, once the profits are computed
RebalanceOfProfit(position, current_price, target_percentage_bps, token_decimals, actual_profit, virtual_profit, new_target_price) ==
  IF actual_profit = ERR \/ virtual_profit = ERR \/ new_target_price = ERR
    THEN RebalanceErr("MathOverflow")
  ELSE RebalanceSized(actual_profit, virtual_profit, new_target_price,
         IF position.is_long
           THEN calculate_long_position(position.desired_entry_price,
                  position.desired_size, current_price, new_target_price,
                  position.collateral, token_decimals)
         ELSE calculate_short_position(position.desired_entry_price,
                position.desired_size, current_price, new_target_price,
                position.collateral, token_decimals))

calculate_rebalance_with_new_target(position, current_price, target_percentage_bps, token_decimals) ==
  IF ~TargetReached(position.is_long, current_price,
                    position.current_target_price)
    THEN NoRebalance(position)
  ELSE IF position.actual_size = 0 \/ current_price = 0
    THEN NoRebalance(position)
  ELSE RebalanceOfProfit(position, current_price, target_percentage_bps,
         token_decimals,
         ActualProfit(position, current_price, Pow10(token_decimals)),
         VirtualProfit(position, current_price, Pow10(token_decimals)),
         NewTargetPrice(position.is_long, current_price,
           TryU64(CheckedDiv(CheckedDiv(
             CheckedMul(CheckedMul(current_price, target_percentage_bps),
                        PRECISION), BASIS_POINTS), PRECISION))))

\* ---------------------------------------------------------------- oracle
\* Price::price is an i64: price.unsigned_abs() of validate_confidence
Abs(x) == IF x < 0 THEN 0 - x ELSE x

\* validate_confidence
validate_confidence(price_data) ==
  LET price_abs == Abs(price_data.price)
      confidence_bps == CheckedDiv(CheckedMul(price_data.conf, BASIS_POINTS),
                                   price_abs)
  IN IF confidence_bps = ERR THEN "MathOverflow"
     ELSE IF ~(confidence_bps <= MAX_CONFIDENCE_BPS)
       THEN "PriceConfidenceTooHigh"
     ELSE "Ok"

\* the exponent of the power of ten normalize_price_to_protocol_precision
\* multiplies or divides the price by: |PRICE_DECIMALS + exponent|
PowerExponent(price_data) == Abs(PRICE_DECIMALS + price_data.exponent)

\* normalize_price_to_protocol_precision; `power` is what 10u128.pow returned
\* for its multiplier or divisor
normalize_price_to_protocol_precision(price_data, power) ==
  LET price_raw == price_data.price
      exponent_diff == PRICE_DECIMALS + price_data.exponent
      normalized_price ==
        IF exponent_diff >= 0 THEN CheckedMul(price_raw, power)
        ELSE CheckedDiv(price_raw, power)
  IN IF power = PANIC THEN [err |-> "Panic", price |-> 0]
     ELSE IF normalized_price = ERR THEN [err |-> "MathOverflow", price |-> 0]
     ELSE IF ~(normalized_price <= U64_MAX)
       THEN [err |-> "PriceOverflow", price |-> 0]
     ELSE [err |-> "Ok", price |-> normalized_price]

\* get_normalized_price: the price update account holds one feed's price;
\* get_price_no_older_than rejects another feed id or a stale price.
get_normalized_price(price_update, feed_id, power) ==
  IF price_update.feed_id # feed_id \/ ~price_update.fresh
    THEN [err |-> "StalePrice", price |-> 0]
  ELSE IF ~(price_update.price > 0) THEN [err |-> "InvalidPrice", price |-> 0]
  ELSE LET c == validate_confidence(price_update)
       IN IF c # "Ok" THEN [err |-> c, price |-> 0]
          ELSE normalize_price_to_protocol_precision(price_update, power)

\* ------------------------------------------------------------ the records
Signers == {"alice", "bob"}
Admins == {"admin"}
Mints == {"USDC"}
Pairs == {"BTC"}
Feeds == {"feedA"}
Decimals == {1}

MaxPositions == 1
MaxSlot == 1
MaxClaims == 1
MaxFunds == 1
\* how many times funding is applied to a position
MaxFundings == 2

\* the position ids a caller passes: the trading specifications pass
\* PositionIds, the specification of a trader's id sequence one id more
PositionIds == 0 .. (MaxPositions - 1)
TraderPositionIds == 0 .. MaxPositions
PositionKeys == Pairs \X Signers \X TraderPositionIds

\* An account that does not exist has bump 0 (Config: lib.rs checks it).
NoConfig ==
  [bump |-> 0, is_paused |-> FALSE, admin |-> "", max_leverage |-> 0,
   liquidation_fee |-> 0, maintainance_margin |-> 0, opening_fee |-> 0,
   closing_fee |-> 0, privacy_fee |-> 0, protocol_fee_share |-> 0,
   last_updated |-> 0]

NoVault ==
  [bump |-> 0, is_paused |-> FALSE, lp_deposit |-> 0, total_lp_shares |-> 0,
   accumulated_lp_fees |-> 0, trader_deposit |-> 0, trader_collateral |-> 0,
   total_borrowed |-> 0, accumulated_fees |-> 0,
   accumulated_liquidation_rewards |-> 0]

NoMarket ==
  [bump |-> 0, decimals |-> 0, feed_id |-> "", total_active_positions |-> 0,
   is_paused |-> FALSE]

NoTrader == [bump |-> 0, privacy |-> FALSE, position_count |-> 0,
             active_position |-> 0]

NoTraderPoolDetail == [bump |-> 0, balance |-> 0, locked_balance |-> 0]

NoPosition ==
  [bump |-> 0, owner |-> "", entered_at |-> 0, closed_at |-> 0,
   last_funding_slot |-> 0, cumulative_funding_paid |-> 0, position_id |-> 0,
   is_long |-> FALSE, pair |-> "", token_mint |-> "",
   current_target_price |-> 0, desired_size |-> 0, desired_entry_price |-> 0,
   actual_entered_price |-> 0, collateral |-> 0, actual_size |-> 0,
   current_price |-> 0, position_value |-> 0, leverage |-> 0,
   last_updated |-> 0]

\* variant of available_liquidity: the borrowed amount is not deducted
available_liquidity_Gross(pool) == pool.lp_deposit

\* Vault::available_liquidity
available_liquidity(pool) == SaturatingSub(pool.lp_deposit, pool.total_borrowed)

\* variant of available_balance: the locked balance is not deducted
available_balance_Gross(tb) == tb.balance

\* TraderPoolDetail::available_balance
available_balance(tb) == SaturatingSub(tb.balance, tb.locked_balance)

VARIABLES config, pools, markets, traders, balances, positions, clock,
          calls, last

records == <<config, pools, markets, traders, balances, positions>>
vars == <<config, pools, markets, traders, balances, positions, clock,
          calls, last>>

\* What the last call did: its operation, its result, and the values the
\* handler computed on the way.
NoCall ==
  [op |-> "none", err |-> "Ok", signer |-> "", mint |-> "", pair |-> "",
   position_id |-> 0, dirty |-> FALSE, is_long |-> FALSE, priced |-> FALSE,
   sized |-> FALSE, desired_entry_price |-> 0, current_price |-> 0,
   target_price |-> 0, position_value |-> 0, leverage_bps |-> 0,
   collateral |-> 0, fee |-> 0, protocol_fee |-> 0, lp_fee |-> 0,
   funding_amount |-> 0, net_pnl |-> 0, is_profit |-> FALSE,
   amount_to_return |-> 0, slot |-> 0, entered_at |-> 0,
   actual_entered_price |-> 0, desired_size |-> 0, actual_size |-> 0,
   token_decimals |-> 0, funding_rate_bps |-> 0, is_payment |-> FALSE,
   oracle |-> [feed_id |-> "", price |-> 0, conf |-> 0, exponent |-> 0,
               fresh |-> FALSE],
   power |-> 0, collateral_arg |-> 0, position |-> NoPosition,
   gross_pnl |-> 0, maintainance_margin |-> 0, health_ratio |-> 0,
   target_percentage_bps |-> 0, should_rebalance |-> FALSE,
   new_actual_size |-> 0, new_target_price |-> 0, new_leverage_bps |-> 0,
   profit_realized |-> 0, excess_to_insurance |-> 0]

\* --------------------------------------------------------- open_position
\* The handler's return: the error code (or "Ok"), the accounts as the
\* handler leaves them in memory at that point, and what it computed.
HandlerResult(err, pool, market, trader, trader_balance, position, obs) ==
  [err |-> err, pool |-> pool, market |-> market, trader |-> trader,
   trader_balance |-> trader_balance, position |-> position, obs |-> obs]

\* variant of TargetPrice: 20% above or below the current price
TargetPrice_Wide(current_price, is_long) ==
  TryU64(CheckedDiv(CheckedMul(current_price, IF is_long THEN 120 ELSE 80),
                    100))

\* target price: 10% above the current price for a long, 10% below for a short
TargetPrice(current_price, is_long) ==
  TryU64(CheckedDiv(CheckedDiv(
           CheckedMul(CheckedMul(current_price, IF is_long THEN 110 ELSE 90),
                      PRECISION), 100), PRECISION))

\* variant of LpFee: the LP share is rounded down on its own
LpFee_OwnShare(fee, protocol_fee) ==
  IF fee = 0 \/ protocol_fee = ERR THEN 0
  ELSE (fee * (BASIS_POINTS - (protocol_fee * BASIS_POINTS) \div fee))
         \div BASIS_POINTS

\* lp_fee = fee - protocol_fee
LpFee(fee, protocol_fee) == CheckedSub64(fee, protocol_fee)

\* variant of LeverageWithinLimit: no limit
LeverageWithinLimit_None(leverage_bps, max_leverage) == TRUE

\* leverage_bps <= config.max_leverage
LeverageWithinLimit(leverage_bps, max_leverage) == leverage_bps <= max_leverage

\* variant of ActiveAfterClose: the counter is left as it is
ActiveAfterClose_Kept(total_active_positions) == total_active_positions

\* market.total_active_positions.checked_sub(1)
ActiveAfterClose(total_active_positions) ==
  CheckedSub64(total_active_positions, 1)

\* variant of CollateralAfterClose: the position value is released
CollateralAfterClose_Value(trader_collateral, position) ==
  CheckedSub64(trader_collateral, position.position_value)

\* pool.trader_collateral.checked_sub(collateral)
CollateralAfterClose(trader_collateral, position) ==
  CheckedSub64(trader_collateral, position.collateral)

\* The writes of open_position, in the source's order; a failed checked
\* operation returns with the earlier writes made.
OpenPositionWrites(pool, market, trader, trader_balance, signer, token_mint, pair, position_id, desired_size, desired_entry_price, is_long, current_price, slot, opening_fee, effective_collateral, params, borrowing_amount, protocol_fee, lp_fee, obs) ==
  LET Fail(pl, mk, tr, tb, ps) ==
        HandlerResult("MathOverflow", pl, mk, tr, tb, ps,
          [obs EXCEPT !.dirty = <<pl, mk, tr, tb, ps>> #
                        <<pool, market, trader, trader_balance, NoPosition>>])
      v1 == CheckedAdd64(pool.accumulated_fees, protocol_fee)
      pool1 == [pool EXCEPT !.accumulated_fees = v1]
      v2 == CheckedAdd64(pool.accumulated_lp_fees, lp_fee)
      pool2 == [pool1 EXCEPT !.accumulated_lp_fees = v2]
      v3 == CheckedSub64(trader_balance.balance, opening_fee)
      tb1 == [trader_balance EXCEPT !.balance = v3]
      v4 == CheckedAdd64(trader_balance.locked_balance, effective_collateral)
      tb2 == [tb1 EXCEPT !.locked_balance = v4]
      v5 == CheckedAdd64(pool.trader_collateral, effective_collateral)
      pool3 == [pool2 EXCEPT !.trader_collateral = v5]
      v6 == CheckedAdd64(pool.total_borrowed, borrowing_amount)
      pool4 == [pool3 EXCEPT !.total_borrowed = v6]
      position ==
        [bump |-> 1, owner |-> signer, entered_at |-> slot, closed_at |-> 0,
         last_funding_slot |-> slot, cumulative_funding_paid |-> 0,
         position_id |-> position_id, is_long |-> is_long, pair |-> pair,
         token_mint |-> token_mint,
         current_target_price |-> params.target_price,
         desired_size |-> desired_size,
         desired_entry_price |-> desired_entry_price,
         actual_entered_price |-> current_price,
         collateral |-> effective_collateral,
         actual_size |-> params.actual_size, current_price |-> current_price,
         position_value |-> params.position_value,
         leverage |-> params.leverage_bps, last_updated |-> slot]
      v7 == CheckedAdd64(trader.position_count, 1)
      trader1 == [trader EXCEPT !.position_count = v7]
      v8 == CheckedAdd64(trader.active_position, 1)
      trader2 == [trader1 EXCEPT !.active_position = v8]
      v9 == CheckedAdd64(market.total_active_positions, 1)
      market1 == [market EXCEPT !.total_active_positions = v9]
  IN IF v1 = ERR THEN Fail(pool, market, trader, trader_balance, NoPosition)
     ELSE IF v2 = ERR
       THEN Fail(pool1, market, trader, trader_balance, NoPosition)
     ELSE IF v3 = ERR
       THEN Fail(pool2, market, trader, trader_balance, NoPosition)
     ELSE IF v4 = ERR THEN Fail(pool2, market, trader, tb1, NoPosition)
     ELSE IF v5 = ERR THEN Fail(pool2, market, trader, tb2, NoPosition)
     ELSE IF v6 = ERR THEN Fail(pool3, market, trader, tb2, NoPosition)
     ELSE IF v7 = ERR THEN Fail(pool4, market, trader, tb2, position)
     ELSE IF v8 = ERR THEN Fail(pool4, market, trader1, tb2, position)
     ELSE IF v9 = ERR THEN Fail(pool4, market, trader2, tb2, position)
     ELSE HandlerResult("Ok", pool4, market1, trader2, tb2, position, obs)

\* variant of BorrowingAmount: nothing is borrowed for a position worth less
\* than its collateral
BorrowingAmount_Saturating(position_value, effective_collateral) ==
  SaturatingSub(position_value, effective_collateral)

\* position_value.checked_sub(effective_collateral)
BorrowingAmount(position_value, effective_collateral) ==
  CheckedSub64(position_value, effective_collateral)

\* open_position, from the fee split on
OpenPositionSettle(cfg, pool, market, trader, trader_balance, signer, token_mint, pair, position_id, desired_size, desired_entry_price, is_long, current_price, slot, opening_fee, effective_collateral, params, obs) ==
  LET Fail(e) == HandlerResult(e, pool, market, trader, trader_balance,
                               NoPosition, obs)
      borrowing_amount ==
        BorrowingAmount(params.position_value, effective_collateral)
      protocol_fee == BpsOf(opening_fee, cfg.protocol_fee_share)
      lp_fee == LpFee(opening_fee, protocol_fee)
  IN IF borrowing_amount = ERR THEN Fail("MathOverflow")
     ELSE IF available_liquidity(pool) < borrowing_amount
       THEN Fail("InsufficientLiquidity")
     ELSE IF protocol_fee = ERR \/ lp_fee = ERR THEN Fail("MathOverflow")
     ELSE OpenPositionWrites(pool, market, trader, trader_balance, signer,
            token_mint, pair, position_id, desired_size, desired_entry_price,
            is_long, current_price, slot, opening_fee, effective_collateral,
            params, borrowing_amount, protocol_fee, lp_fee,
            [obs EXCEPT !.protocol_fee = protocol_fee, !.lp_fee = lp_fee])

\* open_position, from the validation of the sizing to the leverage check
OpenPositionSized(cfg, pool, market, trader, trader_balance, signer, token_mint, pair, position_id, desired_size, desired_entry_price, is_long, current_price, slot, opening_fee, effective_collateral, params, obs) ==
  LET Fail(e, o) == HandlerResult(e, pool, market, trader, trader_balance,
                                  NoPosition, o)
      obs2 == [obs EXCEPT !.sized = TRUE,
                          !.actual_size = params.actual_size,
                          !.position_value = params.position_value,
                          !.leverage_bps = params.leverage_bps]
  IN IF params.err # "Ok" THEN Fail(params.err, obs)
     ELSE IF validate_position_value(params.position_value) # "Ok"
       THEN Fail(validate_position_value(params.position_value), obs2)
     ELSE IF validate_position_size(params.actual_size) # "Ok"
       THEN Fail(validate_position_size(params.actual_size), obs2)
     ELSE IF ~LeverageWithinLimit(params.leverage_bps, cfg.max_leverage)
       THEN Fail("ExcessiveLeverage", obs2)
     ELSE OpenPositionSettle(cfg, pool, market, trader, trader_balance,
            signer, token_mint, pair, position_id, desired_size,
            desired_entry_price, is_long, current_price, slot, opening_fee,
            effective_collateral, params, obs2)

\* open_position, from the opening fee to the sizing
OpenPositionSize(cfg, pool, market, trader, trader_balance, signer, token_mint, pair, position_id, desired_size, desired_entry_price, collateral, is_long, current_price, slot, obs) ==
  LET Fail(e) == HandlerResult(e, pool, market, trader, trader_balance,
                               NoPosition, obs)
      opening_fee == BpsOf(collateral, cfg.opening_fee)
      effective_collateral == CheckedSub64(collateral, opening_fee)
      target_price == TargetPrice(current_price, is_long)
  IN IF opening_fee = ERR THEN Fail("MathOverflow")
     ELSE IF ~(opening_fee > 0) THEN Fail("FeeTooLow")
     ELSE IF effective_collateral = ERR
       THEN Fail("InsufficientCollateralForFees")
     ELSE IF ~(effective_collateral >= MIN_COLLATERAL \div 2)
       THEN Fail("EffectiveCollateralTooLow")
     ELSE IF target_price = ERR THEN Fail("MathOverflow")
     ELSE OpenPositionSized(cfg, pool, market, trader, trader_balance,
            signer, token_mint, pair, position_id, desired_size,
            desired_entry_price, is_long, current_price, slot, opening_fee,
            effective_collateral,
            IF is_long
              THEN calculate_long_position(desired_entry_price, desired_size,
                     current_price, target_price, effective_collateral,
                     market.decimals)
            ELSE calculate_short_position(desired_entry_price, desired_size,
                   current_price, target_price, effective_collateral,
                   market.decimals),
            [obs EXCEPT !.fee = opening_fee,
                        !.collateral = effective_collateral,
                        !.target_price = target_price])

\* open_position, from the validation of the oracle price on
OpenPositionPriced(cfg, pool, market, trader, trader_balance, signer, token_mint, pair, position_id, desired_size, desired_entry_price, collateral, is_long, price, slot, obs) ==
  LET Fail(e) == HandlerResult(e, pool, market, trader, trader_balance,
                               NoPosition, obs)
  IN IF price.err # "Ok" THEN Fail(price.err)
     ELSE IF validate_price(price.price) # "Ok"
       THEN Fail(validate_price(price.price))
     ELSE OpenPositionSize(cfg, pool, market, trader, trader_balance, signer,
            token_mint, pair, position_id, desired_size, desired_entry_price,
            collateral, is_long, price.price, slot,
            [obs EXCEPT !.priced = TRUE, !.current_price = price.price])

\* variant of PositionIdIsNext: any position id is accepted
PositionIdIsNext_Any(position_id, position_count) == TRUE

\* require_eq!(position_id, trader.position_count)
PositionIdIsNext(position_id, position_count) == position_id = position_count

open_position(cfg, pool, market, trader, trader_balance, oracle, power, slot, signer, token_mint, pair, position_id, desired_size, desired_entry_price, collateral, is_long) ==
  LET obs == [NoCall EXCEPT !.op = "open_position", !.signer = signer,
                !.mint = token_mint, !.pair = pair,
                !.position_id = position_id, !.is_long = is_long,
                !.desired_entry_price = desired_entry_price, !.slot = slot,
                !.desired_size = desired_size,
                !.collateral_arg = collateral,
                !.token_decimals = market.decimals]
      Fail(e) == HandlerResult(e, pool, market, trader, trader_balance,
                               NoPosition, obs)
  IN IF cfg.is_paused THEN Fail("ProgramPaused")
     ELSE IF market.is_paused THEN Fail("ProgramPaused")
     ELSE IF pool.is_paused THEN Fail("ProgramPaused")
     ELSE IF ~PositionIdIsNext(position_id, trader.position_count)
       THEN Fail("InvalidPositionId")
     ELSE IF validate_collateral(collateral) # "Ok"
       THEN Fail(validate_collateral(collateral))
     ELSE IF validate_position_size(desired_size) # "Ok"
       THEN Fail(validate_position_size(desired_size))
     ELSE IF validate_price(desired_entry_price) # "Ok"
       THEN Fail(validate_price(desired_entry_price))
     ELSE IF available_balance(trader_balance) < collateral
       THEN Fail("NotEnoughBalance")
     ELSE OpenPositionPriced(cfg, pool, market, trader, trader_balance,
            signer, token_mint, pair, position_id, desired_size,
            desired_entry_price, collateral, is_long,
            get_normalized_price(oracle, market.feed_id, power), slot, obs)

\* -------------------------------------------------------- close_position
\* variant of AmountToReturn: the closing fee is not taken from a profit
AmountToReturn_FeeFree(collateral, net_pnl, is_profit, closing_fee) ==
  IF is_profit THEN CheckedAdd64(collateral, net_pnl)
  ELSE LET total_deduction == CheckedAdd64(net_pnl, closing_fee)
       IN IF total_deduction = ERR THEN ERR
          ELSE IF total_deduction >= collateral THEN 0
          ELSE CheckedSub64(collateral, total_deduction)

\* final amount to return to the trader
AmountToReturn(collateral, net_pnl, is_profit, closing_fee) ==
  IF is_profit
    THEN CheckedAdd64(collateral, SaturatingSub(net_pnl, closing_fee))
  ELSE LET total_deduction == CheckedAdd64(net_pnl, closing_fee)
       IN IF total_deduction = ERR THEN ERR
          ELSE IF total_deduction >= collateral THEN 0
          ELSE CheckedSub64(collateral, total_deduction)

\* variant of BorrowedAfterClose: the position value is released
BorrowedAfterClose_Value(total_borrowed, position, borrowed_amount) ==
  CheckedSub64(total_borrowed, position.position_value)

\* pool.total_borrowed.checked_sub(borrowed_amount)
BorrowedAfterClose(total_borrowed, position, borrowed_amount) ==
  CheckedSub64(total_borrowed, borrowed_amount)

\* The writes of close_position, in the source's order; `position` is the
\* position after the final funding update.
ClosePositionWrites(pool, market, trader, trader_balance, position0, position, slot, collateral, borrowed_amount, protocol_fee, lp_fee, amount_to_return, obs) ==
  LET Fail(pl, mk, tr, tb, ps) ==
        HandlerResult("MathOverflow", pl, mk, tr, tb, ps,
          [obs EXCEPT !.dirty = <<pl, mk, tr, tb, ps>> #
                        <<pool, market, trader, trader_balance, position0>>])
      v1 == BorrowedAfterClose(pool.total_borrowed, position, borrowed_amount)
      pool1 == [pool EXCEPT !.total_borrowed = v1]
      v2 == CollateralAfterClose(pool.trader_collateral, position)
      pool2 == [pool1 EXCEPT !.trader_collateral = v2]
      v3 == CheckedAdd64(pool.accumulated_fees, protocol_fee)
      pool3 == [pool2 EXCEPT !.accumulated_fees = v3]
      v4 == CheckedAdd64(pool.accumulated_lp_fees, lp_fee)
      pool4 == [pool3 EXCEPT !.accumulated_lp_fees = v4]
      v5 == CheckedSub64(trader_balance.locked_balance, collateral)
      tb1 == [trader_balance EXCEPT !.locked_balance = v5]
      v6 == CheckedAdd64(trader_balance.balance, amount_to_return)
      tb2 == [tb1 EXCEPT !.balance = v6]
      position1 == [position EXCEPT !.closed_at = slot]
      v7 == CheckedSub64(trader.active_position, 1)
      trader1 == [trader EXCEPT !.active_position = v7]
      v8 == ActiveAfterClose(market.total_active_positions)
      market1 == [market EXCEPT !.total_active_positions = v8]
  IN IF v1 = ERR THEN Fail(pool, market, trader, trader_balance, position)
     ELSE IF v2 = ERR
       THEN Fail(pool1, market, trader, trader_balance, position)
     ELSE IF v3 = ERR
       THEN Fail(pool2, market, trader, trader_balance, position)
     ELSE IF v4 = ERR
       THEN Fail(pool3, market, trader, trader_balance, position)
     ELSE IF v5 = ERR
       THEN Fail(pool4, market, trader, trader_balance, position)
     ELSE IF v6 = ERR THEN Fail(pool4, market, trader, tb1, position)
     ELSE IF v7 = ERR THEN Fail(pool4, market, trader, tb2, position1)
     ELSE IF v8 = ERR THEN Fail(pool4, market, trader1, tb2, position1)
     ELSE HandlerResult("Ok", pool4, market1, trader1, tb2, position1, obs)

\* close_position, from the fee split to the writes
ClosePositionPaid(cfg, pool, market, trader, trader_balance, position0, position, pnl_result, closing_fee, slot, obs) ==
  LET Fail(e, o) ==
        HandlerResult(e, pool, market, trader, trader_balance, position,
                      [o EXCEPT !.dirty = position # position0])
      protocol_fee == BpsOf(closing_fee, cfg.protocol_fee_share)
      lp_fee == LpFee(closing_fee, protocol_fee)
      collateral == position.collateral
      borrowed_amount == CheckedSub64(position.position_value, collateral)
      amount_to_return ==
        AmountToReturn(collateral, pnl_result.net_pnl, pnl_result.is_profit,
                       closing_fee)
      obs2 == [obs EXCEPT !.net_pnl = pnl_result.net_pnl,
                          !.is_profit = pnl_result.is_profit]
  IN IF pnl_result.err # "Ok" THEN Fail(pnl_result.err, obs)
     ELSE IF closing_fee = ERR \/ protocol_fee = ERR \/ lp_fee = ERR
       THEN Fail("MathOverflow", obs2)
     ELSE IF borrowed_amount = ERR THEN Fail("MathOverflow", obs2)
     ELSE IF amount_to_return = ERR THEN Fail("MathOverflow", obs2)
     ELSE ClosePositionWrites(pool, market, trader, trader_balance, position0,
            position, slot, collateral, borrowed_amount, protocol_fee, lp_fee,
            amount_to_return,
            [obs2 EXCEPT !.fee = closing_fee, !.protocol_fee = protocol_fee,
                         !.lp_fee = lp_fee,
                         !.amount_to_return = amount_to_return])

\* close_position, from the PnL on; `funded` is what the final funding
\* update returned
ClosePositionFunded(cfg, pool, market, trader, trader_balance, position0, funded, current_price, slot, obs) ==
  IF funded.err # "Ok"
    THEN HandlerResult(funded.err, pool, market, trader, trader_balance,
           funded.position,
           [obs EXCEPT !.dirty = funded.position # position0])
  ELSE ClosePositionPaid(cfg, pool, market, trader, trader_balance, position0,
         funded.position,
         calculate_pnl(funded.position, current_price, market.decimals),
         BpsOf(funded.position.position_value, cfg.closing_fee), slot,
         [obs EXCEPT !.funding_amount = funded.funding_amount,
                     !.is_long = position0.is_long,
                     !.desired_entry_price = position0.desired_entry_price,
                     !.position_value = position0.position_value,
                     !.collateral = position0.collateral,
                     !.entered_at = position0.entered_at,
                     !.actual_entered_price = position0.actual_entered_price])

\* close_position, from the validation of the oracle price on
ClosePositionPriced(cfg, pool, market, trader, trader_balance, position, price, slot, obs) ==
  LET Fail(e) == HandlerResult(e, pool, market, trader, trader_balance,
                               position, obs)
  IN IF price.err # "Ok" THEN Fail(price.err)
     ELSE IF validate_price(price.price) # "Ok"
       THEN Fail(validate_price(price.price))
     ELSE ClosePositionFunded(cfg, pool, market, trader, trader_balance,
            position,
            update_funding(position, slot, price.price, FUNDING_RATE_BPS,
                           market.decimals),
            price.price, slot,
            [obs EXCEPT !.priced = TRUE, !.current_price = price.price])

close_position(cfg, pool, market, trader, trader_balance, position, oracle, power, slot, signer, token_mint, pair, position_id) ==
  LET obs == [NoCall EXCEPT !.op = "close_position", !.signer = signer,
                !.mint = token_mint, !.pair = pair,
                !.position_id = position_id, !.slot = slot]
      Fail(e) == HandlerResult(e, pool, market, trader, trader_balance,
                               position, obs)
  IN IF ~(position.closed_at = 0) THEN Fail("PositionAlreadyClosed")
     ELSE IF cfg.is_paused THEN Fail("ProgramPaused")
     ELSE IF market.is_paused THEN Fail("ProgramPaused")
     ELSE IF pool.is_paused THEN Fail("ProgramPaused")
     ELSE ClosePositionPriced(cfg, pool, market, trader, trader_balance,
            position, get_normalized_price(oracle, market.feed_id, power),
            slot, obs)

\* ------------------------------------------------------------ the inputs
\* initialize's arguments
InitializeArgs ==
  { [max_leverage |-> 2500, liquidation_fee |-> 5, maintainance_margin |-> 5,
     opening_fee |-> 10, closing_fee |-> 1, privacy_fee |-> 0,
     protocol_fee_share |-> 30],
    [max_leverage |-> 2500, liquidation_fee |-> 5, maintainance_margin |-> 5,
     opening_fee |-> 10, closing_fee |-> 20, privacy_fee |-> 0,
     protocol_fee_share |-> 100],
    [max_leverage |-> 1000, liquidation_fee |-> 5,
     maintainance_margin |-> 150, opening_fee |-> 4, closing_fee |-> 1,
     privacy_fee |-> 0, protocol_fee_share |-> 120],
    [max_leverage |-> 5000, liquidation_fee |-> 5, maintainance_margin |-> 5,
     opening_fee |-> 0, closing_fee |-> 1, privacy_fee |-> 0,
     protocol_fee_share |-> 30] }

PriceUpdate(price, conf, exponent, fresh) ==
  [feed_id |-> "feedA", price |-> price, conf |-> conf,
   exponent |-> exponent, fresh |-> fresh]

\* the price update accounts a caller may pass: price * 10^exponent, with a
\* confidence; normalized they are 20, 22, 160 and 9, then the rejected ones
PriceUpdates ==
  { PriceUpdate(2, 0, 0, TRUE), PriceUpdate(220, 2, -2, TRUE),
    PriceUpdate(16, 0, 0, TRUE), PriceUpdate(9, 0, -1, TRUE),
    PriceUpdate(2, 1, 0, TRUE), PriceUpdate(0, 0, 0, TRUE),
    PriceUpdate(20, 0, 0, TRUE), PriceUpdate(2, 0, 0, FALSE) }

OpenArgs(desired_size, desired_entry_price, collateral, is_long) ==
  [desired_size |-> desired_size, desired_entry_price |-> desired_entry_price,
   collateral |-> collateral, is_long |-> is_long]

\* open_position's arguments: two small positions, a large one, and
\* arguments the handler rejects (the last one is worth less than its
\* collateral at a price of 20)
OpenPositionArgs ==
  { OpenArgs(100, 18, 50, TRUE), OpenArgs(100, 22, 50, FALSE),
    OpenArgs(2000, 18, 400, TRUE), OpenArgs(100, 5, 50, TRUE),
    OpenArgs(100, 18, 10, TRUE), OpenArgs(100, 22, 50, TRUE),
    OpenArgs(10, 18, 50, TRUE) }

\* the price updates passed to close_position
ClosePriceUpdates == {u \in PriceUpdates : u.price # 9}

\* ------------------------------------------------------------ the actions
Init ==
  /\ config = NoConfig
  /\ pools = [m \in Mints |-> NoVault]
  /\ markets = [p \in Pairs |-> NoMarket]
  /\ traders = [s \in Signers |-> NoTrader]
  /\ balances = [k \in Signers \X Mints |-> NoTraderPoolDetail]
  /\ positions = [k \in PositionKeys |-> NoPosition]
  /\ clock = 1
  /\ calls = [claims |-> 0, funds |-> 0, fundings |-> 0]
  /\ last = NoCall

\* variant of Committed: the accounts are written back whatever the handler
\* returns
Committed_Always(res, before) ==
  <<res.pool, res.market, res.trader, res.trader_balance, res.position>>

\* A handler that returns an error changes no account: the program entry
\* writes the accounts back only when the handler returns Ok.
Committed(res, before) ==
  IF res.err = "Ok"
    THEN <<res.pool, res.market, res.trader, res.trader_balance, res.position>>
  ELSE before

\* ClosePosition's `close = signer`: the position account is gone once the
\* instruction has succeeded.
Closed(res, position) == IF res.err = "Ok" THEN NoPosition ELSE position

Call(op, err) == [NoCall EXCEPT !.op = op, !.err = err]

\* what the last call did, as `last` records it
Observed(res) == [res.obs EXCEPT !.err = res.err]

\* the accounts `post` are written back and the caller sees the result;
\* `closes` is ClosePosition's `close = signer`
Written(signer, token_mint, pair, position_id, res, post, closes) ==
  /\ pools' = [pools EXCEPT ![token_mint] = post[1]]
  /\ markets' = [markets EXCEPT ![pair] = post[2]]
  /\ traders' = [traders EXCEPT ![signer] = post[3]]
  /\ balances' = [balances EXCEPT ![<<signer, token_mint>>] = post[4]]
  /\ positions' = [positions EXCEPT
                     ![<<pair, signer, position_id>>] =
                       IF closes THEN Closed(res, post[5]) ELSE post[5]]
  /\ last' = Observed(res)

\* the handler has returned `res` on the accounts of its call, the position
\* account being `position` before the call
Returned(signer, token_mint, pair, position_id, res, position, closes) ==
  Written(signer, token_mint, pair, position_id, res,
    Committed(res, <<pools[token_mint], markets[pair], traders[signer],
                     balances[<<signer, token_mint>>], position>>),
    closes)

\* no call is in progress: the result of the last one has been returned
Idle == last.op = "none"

Initialize ==
  \E args \in InitializeArgs, signer \in Admins :
    /\ Idle
    /\ config.bump = 0
    /\ config' = [bump |-> 1, is_paused |-> FALSE, admin |-> signer,
                  max_leverage |-> args.max_leverage,
                  liquidation_fee |-> args.liquidation_fee,
                  maintainance_margin |-> args.maintainance_margin,
                  opening_fee |-> args.opening_fee,
                  closing_fee |-> args.closing_fee,
                  privacy_fee |-> args.privacy_fee,
                  protocol_fee_share |-> args.protocol_fee_share,
                  last_updated |-> clock]
    /\ last' = Call("initialize", "Ok")
    /\ UNCHANGED <<pools, markets, traders, balances, positions, clock, calls>>

Register ==
  \E signer \in Signers, token_mint \in Mints :
    /\ Idle
    /\ config.bump # 0
    /\ pools[token_mint].bump # 0
    /\ traders[signer].bump = 0
    /\ balances[<<signer, token_mint>>].bump = 0
    /\ IF config.is_paused
         THEN /\ last' = [Call("register", "ProgramPaused") EXCEPT
                             !.signer = signer, !.mint = token_mint]
              /\ UNCHANGED <<traders, balances>>
       ELSE /\ traders' = [traders EXCEPT ![signer] =
                             [bump |-> 1, privacy |-> FALSE,
                              position_count |-> 0, active_position |-> 0]]
            /\ balances' = [balances EXCEPT ![<<signer, token_mint>>] =
                              [bump |-> 1, balance |-> REGISTER_BALANCE,
                               locked_balance |-> 0]]
            /\ last' = [Call("register", "Ok") EXCEPT
                           !.signer = signer, !.mint = token_mint]
    /\ UNCHANGED <<config, pools, markets, positions, clock, calls>>

\* claim_virtual_balance's handler: the error code and the balance it leaves
claim_virtual_balance(cfg, trader_balance) ==
  LET balance == CheckedAdd64(trader_balance.balance, CLAIM_AMOUNT)
  IN IF cfg.is_paused
       THEN [err |-> "ProgramPaused", trader_balance |-> trader_balance]
     ELSE IF balance = ERR
       THEN [err |-> "MathOverflow", trader_balance |-> trader_balance]
     ELSE [err |-> "Ok",
           trader_balance |-> [trader_balance EXCEPT !.balance = balance]]

ClaimVirtualBalance ==
  \E signer \in Signers, token_mint \in Mints :
    /\ Idle
    /\ config.bump # 0
    /\ pools[token_mint].bump # 0
    /\ balances[<<signer, token_mint>>].bump # 0
    /\ calls.claims < MaxClaims
    /\ calls' = [calls EXCEPT !.claims = @ + 1]
    /\ LET res == claim_virtual_balance(config,
                                        balances[<<signer, token_mint>>])
       IN /\ balances' = [balances EXCEPT
                            ![<<signer, token_mint>>] = res.trader_balance]
          /\ last' = [Call("claim_virtual_balance", res.err) EXCEPT
                        !.signer = signer, !.mint = token_mint]
    /\ UNCHANGED <<config, pools, markets, traders, positions, clock>>

CreatePool ==
  \E token_mint \in Mints :
    /\ Idle
    /\ config.bump # 0
    /\ pools[token_mint].bump = 0
    /\ IF config.is_paused
         THEN /\ last' = [Call("create_pool", "ProgramPaused") EXCEPT
                             !.mint = token_mint]
              /\ UNCHANGED pools
       ELSE /\ pools' = [pools EXCEPT ![token_mint] =
                           [NoVault EXCEPT !.bump = 1,
                              !.lp_deposit = POOL_INITIAL_DEPOSIT]]
            /\ last' = [Call("create_pool", "Ok") EXCEPT !.mint = token_mint]
    /\ UNCHANGED <<config, markets, traders, balances, positions, clock, calls>>

\* fund_pool's handler: the error code and the pool it leaves
fund_pool(cfg, pool) ==
  LET lp_deposit == CheckedAdd64(pool.lp_deposit, FUND_AMOUNT)
  IN IF cfg.is_paused THEN [err |-> "ProgramPaused", pool |-> pool]
     ELSE IF lp_deposit = ERR THEN [err |-> "MathOverflow", pool |-> pool]
     ELSE [err |-> "Ok", pool |-> [pool EXCEPT !.lp_deposit = lp_deposit]]

FundPool ==
  \E token_mint \in Mints :
    /\ Idle
    /\ config.bump # 0
    /\ pools[token_mint].bump # 0
    /\ calls.funds < MaxFunds
    /\ calls' = [calls EXCEPT !.funds = @ + 1]
    /\ LET res == fund_pool(config, pools[token_mint])
       IN /\ pools' = [pools EXCEPT ![token_mint] = res.pool]
          /\ last' = [Call("fund_pool", res.err) EXCEPT !.mint = token_mint]
    /\ UNCHANGED <<config, markets, traders, balances, positions, clock>>

OpenMarket ==
  \E pair \in Pairs, decimals \in Decimals, feed_id \in Feeds :
    /\ Idle
    /\ config.bump # 0
    /\ markets[pair].bump = 0
    /\ IF config.is_paused
         THEN /\ last' = [Call("open_market", "ProgramPaused") EXCEPT
                             !.pair = pair]
              /\ UNCHANGED markets
       ELSE /\ markets' = [markets EXCEPT ![pair] =
                             [bump |-> 1, decimals |-> decimals,
                              feed_id |-> feed_id,
                              total_active_positions |-> 0,
                              is_paused |-> FALSE]]
            /\ last' = [Call("open_market", "Ok") EXCEPT !.pair = pair]
    /\ UNCHANGED <<config, pools, traders, balances, positions, clock, calls>>

\* update_market's handler
update_market(cfg, market, signer, feed_id) ==
  IF cfg.is_paused THEN [err |-> "ProgramPaused", market |-> market]
  ELSE IF market.is_paused THEN [err |-> "ProgramPaused", market |-> market]
  ELSE IF ~(signer = cfg.admin) THEN [err |-> "Unauthorized", market |-> market]
  ELSE [err |-> "Ok",
        market |-> IF feed_id = "None" THEN market
                   ELSE [market EXCEPT !.feed_id = feed_id]]

UpdateMarket ==
  \E pair \in Pairs, signer \in Signers \cup Admins,
     feed_id \in Feeds \cup {"None"} :
    /\ Idle
    /\ config.bump # 0
    /\ markets[pair].bump # 0
    /\ LET res == update_market(config, markets[pair], signer, feed_id)
       IN /\ markets' = [markets EXCEPT ![pair] = res.market]
          /\ last' = [Call("update_market", res.err) EXCEPT !.pair = pair]
    /\ UNCHANGED <<config, pools, traders, balances, positions, clock, calls>>

OpenPositionCall(ArgSet, Updates, Ids) ==
  \E signer \in Signers, token_mint \in Mints, pair \in Pairs,
     position_id \in Ids, args \in ArgSet, oracle \in Updates :
   \E power \in Pow10Outcomes(PowerExponent(oracle)) :
    /\ Idle
    /\ config.bump # 0
    /\ traders[signer].bump # 0
    /\ balances[<<signer, token_mint>>].bump # 0
    /\ pools[token_mint].bump # 0
    /\ markets[pair].bump # 0
    /\ positions[<<pair, signer, position_id>>].bump = 0
    /\ Returned(signer, token_mint, pair, position_id,
         open_position(config, pools[token_mint], markets[pair],
           traders[signer], balances[<<signer, token_mint>>], oracle, power,
           clock, signer, token_mint, pair, position_id, args.desired_size,
           args.desired_entry_price, args.collateral, args.is_long),
         NoPosition, FALSE)
    /\ UNCHANGED <<config, clock, calls>>

ClosePositionCall(Updates, Ids) ==
  \E signer \in Signers, token_mint \in Mints, pair \in Pairs,
     position_id \in Ids, oracle \in Updates :
   \E power \in Pow10Outcomes(PowerExponent(oracle)) :
    /\ Idle
    /\ config.bump # 0
    /\ traders[signer].bump # 0
    /\ balances[<<signer, token_mint>>].bump # 0
    /\ pools[token_mint].bump # 0
    /\ markets[pair].bump # 0
    /\ positions[<<pair, signer, position_id>>].bump # 0
    /\ Returned(signer, token_mint, pair, position_id,
         close_position(config, pools[token_mint], markets[pair],
           traders[signer], balances[<<signer, token_mint>>],
           positions[<<pair, signer, position_id>>], oracle, power, clock,
           signer, token_mint, pair, position_id),
         positions[<<pair, signer, position_id>>], TRUE)
    /\ UNCHANGED <<config, clock, calls>>

OpenPosition == OpenPositionCall(OpenPositionArgs, PriceUpdates, PositionIds)

ClosePosition == ClosePositionCall(ClosePriceUpdates, PositionIds)

\* the caller has the result of its call
Return ==
  /\ ~Idle
  /\ last' = NoCall
  /\ UNCHANGED <<config, pools, markets, traders, balances, positions, clock,
                 calls>>

\* the logical clock advances
Tick ==
  /\ Idle
  /\ clock <= MaxSlot
  /\ clock' = clock + 1
  /\ UNCHANGED <<config, pools, markets, traders, balances, positions, calls,
                 last>>

Next ==
  \/ Initialize
  \/ CreatePool
  \/ FundPool
  \/ OpenMarket
  \/ Register
  \/ OpenPosition
  \/ ClosePosition
  \/ Return
  \/ Tick

Spec == Init /\ [][Next]_vars

\* ------------------------------------------------- the administrative surface
\* The administrative update that pauses and unpauses the Config, a Vault or a
\* Market (its handler is not part of the program's source; the flags are
\* those of the Config, Vault and Market records).
SetPaused ==
  \E is_paused \in BOOLEAN :
    /\ Idle
    /\ \/ /\ config.bump # 0
          /\ config' = [config EXCEPT !.is_paused = is_paused]
          /\ UNCHANGED <<pools, markets>>
       \/ \E m \in Mints :
            /\ pools[m].bump # 0
            /\ pools' = [pools EXCEPT ![m].is_paused = is_paused]
            /\ UNCHANGED <<config, markets>>
       \/ \E p \in Pairs :
            /\ markets[p].bump # 0
            /\ markets' = [markets EXCEPT ![p].is_paused = is_paused]
            /\ UNCHANGED <<config, pools>>
    /\ UNCHANGED <<traders, balances, positions, clock, calls, last>>

AdminOpenArgs == {OpenArgs(100, 18, 50, TRUE)}

AdminPriceUpdates == {PriceUpdate(2, 0, 0, TRUE)}

OpenPositionAdmin ==
  OpenPositionCall(AdminOpenArgs, AdminPriceUpdates, PositionIds)

ClosePositionAdmin == ClosePositionCall(AdminPriceUpdates, PositionIds)

NextAdmin ==
  \/ Initialize
  \/ CreatePool
  \/ FundPool
  \/ OpenMarket
  \/ UpdateMarket
  \/ Register
  \/ ClaimVirtualBalance
  \/ OpenPositionAdmin
  \/ ClosePositionAdmin
  \/ SetPaused
  \/ Return

SpecAdmin == Init /\ [][NextAdmin]_vars

\* ------------------------------------------------- a trader's sequence of calls
\* A call of close_position that names a position account which does not exist
\* (never opened, or closed by a close_position that succeeded): the account
\* constraints reject it before the handler runs.
ClosePositionMissing ==
  \E signer \in Signers, token_mint \in Mints, pair \in Pairs,
     position_id \in TraderPositionIds :
    /\ Idle
    /\ config.bump # 0
    /\ traders[signer].bump # 0
    /\ balances[<<signer, token_mint>>].bump # 0
    /\ pools[token_mint].bump # 0
    /\ markets[pair].bump # 0
    /\ positions[<<pair, signer, position_id>>].bump = 0
    /\ last' = [Call("close_position", "AccountNotInitialized") EXCEPT
                  !.signer = signer, !.mint = token_mint, !.pair = pair,
                  !.position_id = position_id, !.slot = clock]
    /\ UNCHANGED <<config, pools, markets, traders, balances, positions, clock,
                   calls>>

\* a small position, a position that takes most of a trader's balance, and
\* the long of 1000 at 49 on a collateral of 100
TraderOpenArgs ==
  { OpenArgs(100, 18, 50, TRUE), OpenArgs(2000, 18, 480, TRUE),
    OpenArgs(1000, 49, 100, TRUE) }

\* normalized they are 20 and 50
TraderPriceUpdates == {PriceUpdate(2, 0, 0, TRUE), PriceUpdate(5, 0, 0, TRUE)}

OpenPositionTrader ==
  OpenPositionCall(TraderOpenArgs, TraderPriceUpdates, TraderPositionIds)

ClosePositionTrader == ClosePositionCall(TraderPriceUpdates, TraderPositionIds)

NextTrader ==
  \/ Initialize
  \/ CreatePool
  \/ FundPool
  \/ OpenMarket
  \/ UpdateMarket
  \/ Register
  \/ ClaimVirtualBalance
  \/ OpenPositionTrader
  \/ ClosePositionTrader
  \/ ClosePositionMissing
  \/ Return
  \/ Tick

SpecTrader == Init /\ [][NextTrader]_vars

\* ---------------------------------------------------- the sizing functions
SizingPrices == {9, 18, 20, 22, 49, 50, 55}
SizingSizes == {0, 7, 100, 1000}
SizingCollaterals == {0, 1, 7, 45, 100}
SizingDecimals == {0, 1, 2}

\* what a call of a sizing function was given and what it returned
Sized(is_long, desired_entry_price, desired_size, current_price, target_price, collateral, token_decimals, params) ==
  [NoCall EXCEPT !.op = "calculate_position", !.err = params.err,
     !.is_long = is_long, !.desired_entry_price = desired_entry_price,
     !.desired_size = desired_size, !.current_price = current_price,
     !.target_price = target_price, !.collateral = collateral,
     !.token_decimals = token_decimals, !.actual_size = params.actual_size,
     !.position_value = params.position_value,
     !.leverage_bps = params.leverage_bps]

CalculateLongPosition ==
  /\ Idle
  /\ \E desired_entry_price \in SizingPrices, desired_size \in SizingSizes,
        current_price \in SizingPrices, target_price \in SizingPrices,
        collateral \in SizingCollaterals, token_decimals \in SizingDecimals :
       last' = Sized(TRUE, desired_entry_price, desired_size, current_price,
                 target_price, collateral, token_decimals,
                 calculate_long_position(desired_entry_price, desired_size,
                   current_price, target_price, collateral, token_decimals))
  /\ UNCHANGED <<config, pools, markets, traders, balances, positions, clock,
                 calls>>

CalculateShortPosition ==
  /\ Idle
  /\ \E desired_entry_price \in SizingPrices, desired_size \in SizingSizes,
        current_price \in SizingPrices, target_price \in SizingPrices,
        collateral \in SizingCollaterals, token_decimals \in SizingDecimals :
       last' = Sized(FALSE, desired_entry_price, desired_size, current_price,
                 target_price, collateral, token_decimals,
                 calculate_short_position(desired_entry_price, desired_size,
                   current_price, target_price, collateral, token_decimals))
  /\ UNCHANGED <<config, pools, markets, traders, balances, positions, clock,
                 calls>>

NextSizing ==
  \/ CalculateLongPosition
  \/ CalculateShortPosition
  \/ Return

SpecSizing == Init /\ [][NextSizing]_vars

\* ------------------------------------------------------ the funding accrual
\* the position whose funding is updated
FundingKey == <<"BTC", "alice", 0>>

FundingSizes == {0, 200, 30000}
FundingPaid == {0, 5, U64_MAX - 1}
FundingSlots == {0, 1, 2, 3, 10}
FundingPrices == {0, 20, 160}
FundingRates == {-10, 0, 10, 50}

\* the positions funding is applied to: a size, the funding paid so far, and
\* the slot of the last funding update
FundingPositions ==
  { [NoPosition EXCEPT !.bump = 1, !.owner = "alice", !.pair = "BTC",
       !.actual_size = size, !.cumulative_funding_paid = paid,
       !.entered_at = slot, !.last_funding_slot = slot] :
      size \in FundingSizes, paid \in FundingPaid, slot \in {0, 1} }

InitFunding ==
  /\ config = NoConfig
  /\ pools = [m \in Mints |-> NoVault]
  /\ markets = [p \in Pairs |-> NoMarket]
  /\ traders = [s \in Signers |-> NoTrader]
  /\ balances = [k \in Signers \X Mints |-> NoTraderPoolDetail]
  /\ \E position \in FundingPositions :
       positions = [k \in PositionKeys |->
                      IF k = FundingKey THEN position ELSE NoPosition]
  /\ clock = 1
  /\ calls = [claims |-> 0, funds |-> 0, fundings |-> 0]
  /\ last = NoCall

\* Position::update_funding is applied to the position in memory, which keeps
\* what the call wrote whether it returns Ok or an error
UpdateFunding ==
  /\ calls.fundings < MaxFundings
  /\ \E current_slot \in FundingSlots, current_price \in FundingPrices,
        funding_rate_bps \in FundingRates, token_decimals \in Decimals :
       /\ LET position == positions[FundingKey]
              funded == update_funding(position, current_slot, current_price,
                                       funding_rate_bps, token_decimals)
              funding ==
                calculate_funding_payment(position.actual_size, current_price,
                  funding_rate_bps,
                  SaturatingSub(current_slot, position.last_funding_slot),
                  token_decimals)
          IN /\ positions' = [positions EXCEPT ![FundingKey] = funded.position]
             /\ last' = [NoCall EXCEPT
                           !.op = "update_funding", !.err = funded.err,
                           !.funding_amount = funded.funding_amount,
                           !.is_payment = funding.is_payment,
                           !.actual_size = position.actual_size,
                           !.current_price = current_price,
                           !.slot = current_slot,
                           !.funding_rate_bps = funding_rate_bps,
                           !.token_decimals = token_decimals]
       /\ calls' = [calls EXCEPT !.fundings = @ + 1]
       /\ UNCHANGED <<config, pools, markets, traders, balances, clock>>

NextFunding == UpdateFunding

SpecFunding == InitFunding /\ [][NextFunding]_vars

\* ------------------------------------------------- the position arithmetic
MathSizes == {0, 10, 300, U64_MAX}
MathEntryPrices == {20, 50}
MathPrices == {0, 10, 20, 50, 70}
MathCollaterals == {0, 100}

\* the positions the arithmetic is applied to
MathPositions ==
  { [NoPosition EXCEPT !.bump = 1, !.owner = "alice", !.pair = "BTC",
       !.is_long = is_long, !.actual_size = actual_size,
       !.actual_entered_price = actual_entered_price,
       !.cumulative_funding_paid = paid, !.collateral = collateral] :
      is_long \in BOOLEAN, actual_size \in MathSizes,
      actual_entered_price \in MathEntryPrices, paid \in {0, 3, 100, U64_MAX},
      collateral \in MathCollaterals }

\* what calculate_pnl returned for a position
PnlOf(position, current_price, token_decimals, pnl) ==
  [NoCall EXCEPT !.op = "calculate_pnl", !.err = pnl.err,
     !.position = position, !.current_price = current_price,
     !.token_decimals = token_decimals, !.gross_pnl = pnl.gross_pnl,
     !.net_pnl = pnl.net_pnl, !.is_profit = pnl.is_profit]

CalculatePnl ==
  /\ Idle
  /\ \E position \in MathPositions, current_price \in MathPrices,
        token_decimals \in Decimals :
       last' = PnlOf(position, current_price, token_decimals,
                     calculate_pnl(position, current_price, token_decimals))
  /\ UNCHANGED <<config, pools, markets, traders, balances, positions, clock,
                 calls>>

\* what calculate_health_ratio returned for a position, with the PnL it
\* computed on the way
HealthOf(position, current_price, maintainance_margin, token_decimals, pnl, health) ==
  [NoCall EXCEPT !.op = "calculate_health_ratio", !.err = health.err,
     !.position = position, !.current_price = current_price,
     !.maintainance_margin = maintainance_margin,
     !.token_decimals = token_decimals, !.gross_pnl = pnl.gross_pnl,
     !.net_pnl = pnl.net_pnl, !.is_profit = pnl.is_profit,
     !.health_ratio = health.health_ratio]

CalculateHealthRatio ==
  /\ Idle
  /\ \E position \in MathPositions, current_price \in MathPrices,
        maintainance_margin \in {0, 5, 50}, token_decimals \in Decimals :
       last' = HealthOf(position, current_price, maintainance_margin,
                 token_decimals,
                 calculate_pnl(position, current_price, token_decimals),
                 calculate_health_ratio(position, current_price,
                   [NoConfig EXCEPT
                      !.maintainance_margin = maintainance_margin],
                   token_decimals))
  /\ UNCHANGED <<config, pools, markets, traders, balances, positions, clock,
                 calls>>

RebalancePrices == {0, 20, 22, 45, 55, 60}

\* the positions a rebalance is computed for
RebalancePositions ==
  { [NoPosition EXCEPT !.bump = 1, !.owner = "alice", !.pair = "BTC",
       !.is_long = is_long, !.actual_size = actual_size,
       !.actual_entered_price = actual_entered_price,
       !.desired_entry_price = desired_entry_price,
       !.desired_size = desired_size, !.collateral = collateral,
       !.current_target_price = current_target_price] :
      is_long \in BOOLEAN, actual_size \in {0, 120, 1200},
      actual_entered_price \in MathEntryPrices,
      desired_entry_price \in {18, 49, 60},
      desired_size \in {100, 1000},
      collateral \in MathCollaterals,
      current_target_price \in {22, 45, 55} }

\* what calculate_rebalance_with_new_target returned for a position
RebalanceOf(position, current_price, target_percentage_bps, token_decimals, res) ==
  [NoCall EXCEPT !.op = "calculate_rebalance_with_new_target",
     !.err = res.err, !.position = position,
     !.current_price = current_price,
     !.target_percentage_bps = target_percentage_bps,
     !.token_decimals = token_decimals,
     !.should_rebalance = res.should_rebalance,
     !.new_actual_size = res.new_actual_size,
     !.new_target_price = res.new_target_price,
     !.new_leverage_bps = res.new_leverage_bps,
     !.profit_realized = res.profit_realized,
     !.excess_to_insurance = res.excess_to_insurance]

CalculateRebalance ==
  /\ Idle
  /\ \E position \in RebalancePositions, current_price \in RebalancePrices,
        target_percentage_bps \in {0, 10, 20},
        token_decimals \in Decimals :
       last' = RebalanceOf(position, current_price, target_percentage_bps,
                 token_decimals,
                 calculate_rebalance_with_new_target(position, current_price,
                   target_percentage_bps, token_decimals))
  /\ UNCHANGED <<config, pools, markets, traders, balances, positions, clock,
                 calls>>

NextMath ==
  \/ CalculatePnl
  \/ CalculateHealthRatio
  \/ CalculateRebalance
  \/ Return

SpecMath == Init /\ [][NextMath]_vars

\* -------------------------------------------------- the token decimals
\* A Market's decimals are any u8 (open_market stores its argument
\* unchecked), so 10_u128.pow(token_decimals) can exceed the u128: here 10^10
\* is the first power above the word, and 10^30 is 0 modulo the word.
WideDecimals == {0, 1, 2, 9, 10, 12, 30}

\* the positions whose PnL is computed under any token decimals
WidePositions ==
  { [NoPosition EXCEPT !.bump = 1, !.owner = "alice", !.pair = "BTC",
       !.is_long = is_long, !.actual_size = actual_size,
       !.actual_entered_price = 20, !.cumulative_funding_paid = paid] :
      is_long \in BOOLEAN, actual_size \in {0, 300, U64_MAX}, paid \in {0, 3} }

\* calculate_pnl with the market's decimals: the power of ten is whatever
\* 10_u128.pow produces in the build
PnlAtDecimals ==
  /\ Idle
  /\ \E position \in WidePositions, current_price \in {20, 50, U64_MAX},
        token_decimals \in WideDecimals :
       \E token_divisor \in Pow10Outcomes(token_decimals) :
         last' = [PnlOf(position, current_price, token_decimals,
                        PnlWithDivisor(position, current_price, token_divisor))
                    EXCEPT !.power = token_divisor]
  /\ UNCHANGED <<config, pools, markets, traders, balances, positions, clock,
                 calls>>

\* calculate_funding_payment with the market's decimals
FundingAtDecimals ==
  /\ Idle
  /\ \E actual_size \in {0, 300, U64_MAX}, current_price \in {20, 50, U64_MAX},
        funding_rate_bps \in {-10, 0, 50}, slots_elapsed \in {0, 3, 8},
        token_decimals \in WideDecimals :
       \E token_divisor \in Pow10Outcomes(token_decimals) :
         LET funding == FundingWithDivisor(actual_size, current_price,
                          funding_rate_bps, slots_elapsed, token_divisor)
         IN last' = [NoCall EXCEPT
                       !.op = "calculate_funding_payment",
                       !.err = funding.err, !.actual_size = actual_size,
                       !.current_price = current_price,
                       !.funding_rate_bps = funding_rate_bps,
                       !.slot = slots_elapsed,
                       !.token_decimals = token_decimals,
                       !.power = token_divisor,
                       !.funding_amount = funding.funding_amount,
                       !.is_payment = funding.is_payment]
  /\ UNCHANGED <<config, pools, markets, traders, balances, positions, clock,
                 calls>>

\* calculate_long_position with the market's decimals
LongAtDecimals ==
  /\ Idle
  /\ \E desired_entry_price \in {18, 49}, desired_size \in {100, U64_MAX},
        current_price \in {20, 50}, target_price \in {22, 55},
        collateral \in {1, 100}, token_decimals \in WideDecimals :
       \E token_divisor \in Pow10Outcomes(token_decimals) :
         last' = [Sized(TRUE, desired_entry_price, desired_size, current_price,
                    target_price, collateral, token_decimals,
                    LongPositionWithDivisor(desired_entry_price, desired_size,
                      current_price, target_price, collateral, token_divisor))
                    EXCEPT !.power = token_divisor]
  /\ UNCHANGED <<config, pools, markets, traders, balances, positions, clock,
                 calls>>

NextDecimals ==
  \/ PnlAtDecimals
  \/ FundingAtDecimals
  \/ LongAtDecimals
  \/ Return

SpecDecimals == Init /\ [][NextDecimals]_vars

\* ------------------------------------------------------- the oracle's price
\* prices of a price update: the i64 may be negative or 0, and goes up to half
\* the u64
OraclePrices == {-3, 0, 1, 7, 150, 200, U64_MAX \div 2}
OracleConfs == {0, 1, 2, 200}
\* exponents of a price update, from far below -PRICE_DECIMALS to far above
OracleExponents == {-31, -12, -3, -2, -1, 0, 1, 3, 5, 9, 12, 29}
OracleFeeds == {"feedA", "feedB"}

\* the price updates a caller may pass for a market whose feed is feedA
OracleUpdates ==
  { [feed_id |-> feed_id, price |-> price, conf |-> conf,
     exponent |-> exponent, fresh |-> fresh] :
      feed_id \in OracleFeeds, price \in OraclePrices, conf \in OracleConfs,
      exponent \in OracleExponents, fresh \in BOOLEAN }

\* what a price computation returned for a price update
Priced(op, price_data, power, res) ==
  [NoCall EXCEPT !.op = op, !.err = res.err, !.current_price = res.price,
                 !.oracle = price_data, !.power = power]

\* normalize_price_to_protocol_precision, which get_normalized_price calls
\* with a price above 0
NormalizePrice ==
  /\ Idle
  /\ \E price_data \in OracleUpdates :
       /\ price_data.price > 0
       /\ \E power \in Pow10Outcomes(PowerExponent(price_data)) :
            last' = Priced("normalize_price_to_protocol_precision",
                           price_data, power,
                           normalize_price_to_protocol_precision(price_data,
                                                                 power))
  /\ UNCHANGED <<config, pools, markets, traders, balances, positions, clock,
                 calls>>

GetNormalizedPrice ==
  /\ Idle
  /\ \E price_update \in OracleUpdates :
       \E power \in Pow10Outcomes(PowerExponent(price_update)) :
         last' = Priced("get_normalized_price", price_update, power,
                        get_normalized_price(price_update, "feedA", power))
  /\ UNCHANGED <<config, pools, markets, traders, balances, positions, clock,
                 calls>>

NextOracle ==
  \/ NormalizePrice
  \/ GetNormalizedPrice
  \/ Return

SpecOracle == Init /\ [][NextOracle]_vars

\* ---------------------------------------------------------------- properties
\* the positions that are open
OpenKeys == {k \in PositionKeys :
               positions[k].bump # 0 /\ positions[k].closed_at = 0}

RECURSIVE SumCollateral(_)
\* the sum of the collateral of the positions whose keys are in S
SumCollateral(S) ==
  IF S = {} THEN 0
  ELSE LET k == CHOOSE x \in S : TRUE
       IN positions[k].collateral + SumCollateral(S \ {k})

\* a step that is a call of open_position or close_position
TradeCalled == last.op = "none" /\ last'.op \in {"open_position",
                                                 "close_position"}

\* C1: in every reachable state a vault has lent out no more than the
\* liquidity deposited in it: total_borrowed <= lp_deposit.
C1_BorrowedWithinDeposit ==
  \A m \in Mints : pools[m].total_borrowed <= pools[m].lp_deposit

\* an open was refused for lack of liquidity while the vault, funded beyond
\* its initial deposit, has lent to an open position
C1_Witness ==
  /\ last.op = "open_position"
  /\ last.err = "InsufficientLiquidity"
  /\ pools[last.mint].total_borrowed > 0
  /\ pools[last.mint].lp_deposit > POOL_INITIAL_DEPOSIT

\* C2: in every reachable state a vault's trader_collateral is the sum of the
\* collateral of the open positions funded from it.
C2_CollateralIsSumOfOpen ==
  \A m \in Mints :
    pools[m].trader_collateral =
      SumCollateral({k \in OpenKeys : positions[k].token_mint = m})

\* a position has just been closed while another one of the same vault is
\* still open
C2_Witness ==
  /\ last.op = "close_position"
  /\ last.err = "Ok"
  /\ last.collateral > 0
  /\ \E k \in OpenKeys : positions[k].token_mint = last.mint

\* C3: in every reachable state a market's total_active_positions is the
\* number of its positions whose closed_at is 0.
C3_ActiveIsCountOfOpen ==
  \A p \in Pairs :
    markets[p].total_active_positions =
      Cardinality({k \in OpenKeys : positions[k].pair = p})

\* a position of a market has just been closed and exactly one is left open
C3_Witness ==
  /\ last.op = "close_position"
  /\ last.err = "Ok"
  /\ markets[last.pair].total_active_positions = 1
  /\ Cardinality({k \in OpenKeys : positions[k].pair = last.pair}) = 1

MutatingOps == {"register", "claim_virtual_balance", "create_pool",
                "fund_pool", "open_market", "update_market", "open_position",
                "close_position"}

\* a record involved in the call l is paused: the Config, the Vault of the
\* operations that take one, the Market of the operations that take one
InvolvedPaused(l) ==
  \/ config.is_paused
  \/ /\ l.op \in {"register", "claim_virtual_balance", "fund_pool",
                   "open_position", "close_position"}
     /\ pools[l.mint].is_paused
  \/ /\ l.op \in {"update_market", "open_position", "close_position"}
     /\ markets[l.pair].is_paused

\* C5: every mutating operation called while the Config, the Market or the
\* Vault involved is paused fails with ProgramPaused and changes no record.
C5_PausedCallFails ==
  [][(last.op = "none" /\ last'.op \in MutatingOps /\ InvolvedPaused(last'))
       => (last'.err = "ProgramPaused" /\ UNCHANGED records)]_vars

PricesOrdered(is_long, desired_entry_price, current_price, target_price) ==
  IF is_long
    THEN target_price > current_price /\ current_price > desired_entry_price
  ELSE desired_entry_price > current_price /\ current_price > target_price

\* C7: a long open_position that succeeds has target_price > current_price >
\* desired_entry_price and a short one desired_entry_price > current_price >
\* target_price; an open whose entry, current or target price is out of that
\* order is rejected, unsized, and creates no position.
C7_PriceOrdering ==
  /\ \A k \in PositionKeys :
       positions[k].bump # 0 =>
         PricesOrdered(positions[k].is_long, positions[k].desired_entry_price,
                       positions[k].actual_entered_price,
                       positions[k].current_target_price)
  /\ (last.op = "open_position" /\ last.priced) =>
       LET target == IF last.is_long THEN (last.current_price * 110) \div 100
                     ELSE (last.current_price * 90) \div 100
       IN IF PricesOrdered(last.is_long, last.desired_entry_price,
                           last.current_price, target)
            THEN last.err = "Ok" => last.target_price = target
          ELSE /\ last.err # "Ok"
               /\ ~last.sized
               /\ positions[<<last.pair, last.signer,
                              last.position_id>>].bump = 0

\* a short position has just been opened
C7_Witness ==
  /\ last.op = "open_position"
  /\ last.err = "Ok"
  /\ ~last.is_long
  /\ positions[<<last.pair, last.signer, last.position_id>>].bump # 0

\* C8: the protocol fee and the LP fee of an open or a close sum to its fee,
\* for every protocol_fee_share in [0, BASIS_POINTS], and a successful open or
\* close grows the vault's accumulated_fees + accumulated_lp_fees by that fee.
C8_FeeSplitExact ==
  [][(TradeCalled /\ last'.err = "Ok") =>
       /\ last'.protocol_fee + last'.lp_fee = last'.fee
       /\ LET before == pools[last'.mint]
              after == pools'[last'.mint]
          IN (after.accumulated_fees + after.accumulated_lp_fees)
               - (before.accumulated_fees + before.accumulated_lp_fees)
             = last'.fee
       /\ \A share \in 0 .. BASIS_POINTS :
            LET protocol_fee == BpsOf(last'.fee, share)
                lp_fee == LpFee(last'.fee, protocol_fee)
            IN /\ protocol_fee # ERR
               /\ lp_fee # ERR
               /\ protocol_fee + lp_fee = last'.fee]_vars

\* a close has split its fee into a protocol part and an LP part
C8_Witness ==
  /\ last.op = "close_position"
  /\ last.err = "Ok"
  /\ last.protocol_fee > 0
  /\ last.lp_fee > 0

\* the last call closed a position in the slot it was opened in, at the price
\* it was opened at
RoundTrip ==
  /\ last.op = "close_position"
  /\ last.err = "Ok"
  /\ last.slot = last.entered_at
  /\ last.current_price = last.actual_entered_price

\* C9 as stated: a position closed in the slot and at the price it was opened
\* at returns collateral - closing_fee.
C9_RoundTripReturnsCollateralLessFee ==
  RoundTrip => last.amount_to_return = last.collateral - last.fee

\* C9: a position closed in the slot and at the price it was opened at
\* accrues no funding, has a PnL of zero, and returns collateral -
\* closing_fee, or 0 when the closing fee is the collateral or more.
C9_RoundTripReturnsClamped ==
  RoundTrip =>
    /\ last.funding_amount = 0
    /\ last.net_pnl = 0
    /\ ~last.is_profit
    /\ last.amount_to_return =
         IF last.fee >= last.collateral THEN 0
         ELSE last.collateral - last.fee

\* a round trip whose closing fee is less than the collateral
C9_Witness ==
  /\ RoundTrip
  /\ last.fee > 0
  /\ last.fee < last.collateral
  /\ last.amount_to_return = last.collateral - last.fee

\* C10: a close returns collateral + max(net_pnl - closing_fee, 0) on a
\* profit, collateral - (net_pnl + closing_fee) on a loss, and 0 when
\* net_pnl + closing_fee is the collateral or more; the amount is never
\* negative and the trader's balance grows by exactly that amount.
C10_Payout ==
  [][(TradeCalled /\ last'.op = "close_position" /\ last'.err = "Ok") =>
       LET l == last'
           k == <<l.signer, l.mint>>
           gain == IF l.net_pnl > l.fee THEN l.net_pnl - l.fee ELSE 0
       IN /\ l.amount_to_return =
               IF l.is_profit THEN l.collateral + gain
               ELSE IF l.net_pnl + l.fee >= l.collateral THEN 0
               ELSE l.collateral - (l.net_pnl + l.fee)
          /\ l.amount_to_return >= 0
          /\ balances'[k].balance = balances[k].balance + l.amount_to_return
     ]_vars

\* a losing position whose loss and closing fee exceed its collateral has
\* been closed for nothing
C10_Witness ==
  /\ last.op = "close_position"
  /\ last.err = "Ok"
  /\ ~last.is_profit
  /\ last.net_pnl > 0
  /\ last.net_pnl + last.fee >= last.collateral
  /\ last.amount_to_return = 0

C12_ClosingIsTerminal ==
  [][/\ (last.op = "none" /\ last'.op = "close_position") =>
          LET k == <<last'.pair, last'.signer, last'.position_id>>
          IN /\ last'.err = "Ok" =>
                  /\ positions'[k].closed_at = last'.slot
                  /\ positions'[k].closed_at # 0
             /\ (last'.position_id < traders[last'.signer].position_count
                   /\ k \notin OpenKeys) =>
                  last'.err = "PositionAlreadyClosed"
     /\ \A k \in PositionKeys :
          positions[k].closed_at # 0 => positions'[k] = positions[k]
    ]_vars

\* C13: in every state after initialize the Config's protocol_fee_share and
\* maintenance margin are at most BASIS_POINTS (100%).
C13_ConfigSharesBounded ==
  config.bump # 0 =>
    /\ config.protocol_fee_share <= BASIS_POINTS
    /\ config.maintainance_margin <= BASIS_POINTS

\* C14: in every reachable state every TraderPoolDetail has locked_balance <=
\* balance, so that available_balance is balance - locked_balance without its
\* saturation.
C14_LockedWithinBalance ==
  \A k \in Signers \X Mints :
    /\ balances[k].locked_balance <= balances[k].balance
    /\ SaturatingSub(balances[k].balance, balances[k].locked_balance) =
         balances[k].balance - balances[k].locked_balance

\* a trader with a position still open, whose collateral is locked, was
\* refused another open for lack of available balance
C14_Witness ==
  /\ last.op = "open_position"
  /\ last.err = "NotEnoughBalance"
  /\ balances[<<last.signer, last.mint>>].locked_balance > 0
  /\ balances[<<last.signer, last.mint>>].balance > 0

\* the reference sizing of the last call of a sizing function: the size, the
\* position value, and the leverage of that position value
ReferenceSize ==
  (last.desired_size * Abs(last.target_price - last.desired_entry_price))
    \div Abs(last.target_price - last.current_price)

ReferenceValue ==
  (last.actual_size * last.current_price) \div Pow10(last.token_decimals)

\* the position value before PRECISION is divided out
ReferenceScaledValue ==
  (last.actual_size * last.current_price * PRECISION)
    \div Pow10(last.token_decimals)

\* C19 as stated: a sizing that succeeds returns the reference size and
\* position value, and leverage_bps = floor(position_value * BASIS_POINTS /
\* collateral) of the position value it returns.
C19_SizingIsReference ==
  (last.op = "calculate_position" /\ last.err = "Ok") =>
    /\ last.actual_size = ReferenceSize
    /\ last.position_value = ReferenceValue
    /\ last.leverage_bps =
         (last.position_value * BASIS_POINTS) \div last.collateral

\* C19: a sizing that succeeds returns the reference size and position value,
\* and the leverage of the scaled position value: leverage_bps =
\* floor(floor(S * BASIS_POINTS / collateral) / PRECISION) with S =
\* floor(actual_size * current_price * PRECISION / 10^token_decimals).
C19_SizingIsScaledReference ==
  (last.op = "calculate_position" /\ last.err = "Ok") =>
    /\ last.actual_size = ReferenceSize
    /\ last.position_value = ReferenceValue
    /\ last.leverage_bps =
         ((ReferenceScaledValue * BASIS_POINTS) \div last.collateral)
           \div PRECISION

\* a short has been sized whose leverage is above the leverage of the position
\* value it returns
C19_Witness ==
  /\ last.op = "calculate_position"
  /\ last.err = "Ok"
  /\ ~last.is_long
  /\ last.actual_size > 0
  /\ last.leverage_bps >
       (last.position_value * BASIS_POINTS) \div last.collateral

\* C15: update_funding applied a second time at the same slot, with the same
\* price and rate, returns a funding amount of 0 and leaves
\* cumulative_funding_paid and last_funding_slot as the first application
\* left them.
C15_FundingIdempotentInTick ==
  [][(/\ last.op = "update_funding"
      /\ last.err = "Ok"
      /\ last'.op = "update_funding"
      /\ last'.slot = last.slot
      /\ last'.current_price = last.current_price
      /\ last'.funding_rate_bps = last.funding_rate_bps
      /\ last'.token_decimals = last.token_decimals)
       => /\ last'.err = "Ok"
          /\ last'.funding_amount = 0
          /\ positions'[FundingKey].cumulative_funding_paid =
               positions[FundingKey].cumulative_funding_paid
          /\ positions'[FundingKey].last_funding_slot =
               positions[FundingKey].last_funding_slot]_vars

\* funding that had accrued on a position was applied again with no slot
\* elapsed, for nothing
C15_Witness ==
  /\ last.op = "update_funding"
  /\ last.err = "Ok"
  /\ last.funding_amount = 0
  /\ last.actual_size > 0
  /\ last.current_price > 0
  /\ last.funding_rate_bps > 0
  /\ last.slot = positions[FundingKey].last_funding_slot
  /\ positions[FundingKey].cumulative_funding_paid \notin FundingPaid

\* C20: update_funding leaves is_payment = (rate > 0); its funding amount is 0
\* when the size, the price, the rate or the elapsed slots are 0, and otherwise
\* floor(notional_scaled * |rate| * periods_scaled / (BASIS_POINTS *
\* PRECISION^2)) with notional_scaled = floor(size * price * PRECISION /
\* 10^decimals) and periods_scaled = floor(elapsed * PRECISION /
\* SLOTS_PER_8_HOURS); cumulative_funding_paid grows by that amount for a
\* positive rate and falls by it, stopping at 0, for a negative one.
C20_FundingAmount ==
  [][last'.op = "update_funding" =>
       LET before == positions[FundingKey]
           after == positions'[FundingKey]
           l == last'
           elapsed == IF l.slot > before.last_funding_slot
                        THEN l.slot - before.last_funding_slot
                      ELSE 0
           zero == \/ before.actual_size = 0
                   \/ l.current_price = 0
                   \/ l.funding_rate_bps = 0
                   \/ elapsed = 0
           notional_scaled ==
             (before.actual_size * l.current_price * PRECISION)
               \div Pow10(l.token_decimals)
           periods_scaled == (elapsed * PRECISION) \div SLOTS_PER_8_HOURS
           amount ==
             IF zero THEN 0
             ELSE (notional_scaled * Abs(l.funding_rate_bps) * periods_scaled)
                    \div (BASIS_POINTS * PRECISION * PRECISION)
       IN /\ l.is_payment = (l.funding_rate_bps > 0)
          /\ zero => (l.err = "Ok" /\ l.funding_amount = 0)
          /\ l.err = "Ok" =>
               /\ l.funding_amount = amount
               /\ after.cumulative_funding_paid =
                    IF l.funding_rate_bps > 0
                      THEN before.cumulative_funding_paid + amount
                    ELSE IF amount > before.cumulative_funding_paid THEN 0
                    ELSE before.cumulative_funding_paid - amount]_vars

\* a position was credited more funding than it had paid, and its
\* cumulative_funding_paid stopped at 0
C20_Witness ==
  /\ last.op = "update_funding"
  /\ last.err = "Ok"
  /\ last.funding_rate_bps < 0
  /\ last.funding_amount > 5
  /\ positions[FundingKey].cumulative_funding_paid = 0

\* the open of the scenario, scaled: a long of 1000 at 49 on a collateral of
\* 100, in a market of 1 decimal whose price is 50, once the price is read
C16_Scenario ==
  /\ last.op = "open_position"
  /\ last.priced
  /\ last.is_long
  /\ last.current_price = 50
  /\ last.desired_entry_price = 49
  /\ last.desired_size = 1000
  /\ last.collateral_arg = 100
  /\ last.token_decimals = 1

\* the target price is 55 and the sizing gives a size of 1200, a value of
\* 6000 and a leverage of 6000 (60 times, in basis points of 100)
C16_Sizing ==
  LET target_price == TargetPrice(50, TRUE)
      params == calculate_long_position(49, 1000, 50, target_price, 100, 1)
  IN /\ target_price = 55
     /\ params.err = "Ok"
     /\ params.actual_size = 1200
     /\ params.position_value = 6000
     /\ params.leverage_bps = 6000

\* C16 as stated: in the scenario the target price, size, value and leverage
\* are those, and under any config with max_leverage <= 5000 (50 times) the
\* open fails with ExcessiveLeverage.
C16_ScenarioAnyConfig ==
  (C16_Scenario /\ config.max_leverage <= 5000)
    => (C16_Sizing /\ last.err = "ExcessiveLeverage")

\* C16: in the scenario the target price, size, value and leverage are those,
\* and under a config with max_leverage <= 5000 the open fails with FeeTooLow
\* when the opening fee is 0 and, when the fee is above 0 and leaves at least
\* MIN_COLLATERAL / 2, with ExcessiveLeverage, its leverage computed on the
\* collateral less the fee.
C16_ScenarioFeePaid ==
  (C16_Scenario /\ config.max_leverage <= 5000)
    => /\ C16_Sizing
       /\ LET opening_fee == (100 * config.opening_fee) \div BASIS_POINTS
          IN IF opening_fee = 0 THEN last.err = "FeeTooLow"
             ELSE (100 - opening_fee >= MIN_COLLATERAL \div 2) =>
                    /\ last.err = "ExcessiveLeverage"
                    /\ last.target_price = 55
                    /\ last.actual_size = 1200
                    /\ last.position_value = 6000
                    /\ last.leverage_bps =
                         (6000 * BASIS_POINTS) \div (100 - opening_fee)

\* the open of the scenario was refused for its leverage under a config that
\* takes an opening fee
C16_Witness ==
  /\ C16_Scenario
  /\ config.max_leverage <= 5000
  /\ config.opening_fee > 0
  /\ last.err = "ExcessiveLeverage"
  /\ last.leverage_bps > 6000

RECURSIVE ScaledUp(_, _)
\* price * 10^n, or some number above U64_MAX when the product is above it
ScaledUp(price, n) ==
  IF n = 0 \/ price > U64_MAX THEN price ELSE ScaledUp(price * 10, n - 1)

RECURSIVE ScaledDown(_, _)
\* floor(price / 10^n)
ScaledDown(price, n) ==
  IF n = 0 \/ price = 0 THEN price ELSE ScaledDown(price \div 10, n - 1)

\* C17: for every oracle price > 0 and every exponent, the normalization
\* returns price * 10^(PRICE_DECIMALS + exponent) when PRICE_DECIMALS +
\* exponent >= 0 and floor(price / 10^-(PRICE_DECIMALS + exponent)) otherwise
\* if that fits the u64, and fails with PriceOverflow whenever it does not.
C17_NormalizedOrPriceOverflow ==
  last.op = "normalize_price_to_protocol_precision" =>
    LET exponent_diff == PRICE_DECIMALS + last.oracle.exponent
        normalized == IF exponent_diff >= 0
                        THEN ScaledUp(last.oracle.price, exponent_diff)
                      ELSE ScaledDown(last.oracle.price, -exponent_diff)
    IN IF normalized <= U64_MAX
         THEN last.err = "Ok" /\ last.current_price = normalized
       ELSE last.err = "PriceOverflow"

\* C18: get_normalized_price, given a fresh price of the market's feed,
\* rejects with InvalidPrice a price <= 0 and with PriceConfidenceTooHigh a
\* confidence with conf * BASIS_POINTS > MAX_CONFIDENCE_BPS * price, and
\* accepts the price only when conf * BASIS_POINTS <= MAX_CONFIDENCE_BPS *
\* price.
C18_ConfidenceWithinOnePercent ==
  (last.op = "get_normalized_price" /\ last.oracle.fresh
     /\ last.oracle.feed_id = "feedA") =>
    /\ last.oracle.price <= 0 => last.err = "InvalidPrice"
    /\ (/\ last.oracle.price > 0
        /\ last.oracle.conf * BASIS_POINTS
             > MAX_CONFIDENCE_BPS * last.oracle.price)
         => last.err = "PriceConfidenceTooHigh"
    /\ last.err = "Ok" =>
         last.oracle.conf * BASIS_POINTS
           <= MAX_CONFIDENCE_BPS * last.oracle.price

\* C21: calculate_pnl's is_profit is true only if the net PnL is strictly
\* positive: with a gross profit (a long whose current value >= its entry
\* value, a short whose entry value >= its current value) net_pnl =
\* max(gross_pnl - cumulative_funding_paid, 0) and is_profit = (net_pnl > 0);
\* with a gross loss net_pnl = gross_pnl + cumulative_funding_paid, MathOverflow
\* if that does not fit, and is_profit = false; with actual_size = 0 the result
\* is (0, 0, false).
C21_NetPnlAfterFunding ==
  last.op = "calculate_pnl" =>
    LET position == last.position
        token_divisor == Pow10(last.token_decimals)
        current_value ==
          (position.actual_size * last.current_price) \div token_divisor
        entry_value ==
          (position.actual_size * position.actual_entered_price)
            \div token_divisor
        in_profit == IF position.is_long THEN current_value >= entry_value
                     ELSE entry_value >= current_value
        gross == IF current_value >= entry_value
                   THEN current_value - entry_value
                 ELSE entry_value - current_value
        paid == position.cumulative_funding_paid
    IN /\ last.is_profit => (last.err = "Ok" /\ last.net_pnl > 0)
       /\ IF position.actual_size = 0
            THEN /\ last.err = "Ok"
                 /\ last.gross_pnl = 0
                 /\ last.net_pnl = 0
                 /\ ~last.is_profit
          ELSE IF gross > U64_MAX THEN last.err = "MathOverflow"
          ELSE IF in_profit
            THEN /\ last.err = "Ok"
                 /\ last.gross_pnl = gross
                 /\ last.net_pnl = IF gross > paid THEN gross - paid ELSE 0
                 /\ last.is_profit = (last.net_pnl > 0)
          ELSE IF gross + paid > U64_MAX THEN last.err = "MathOverflow"
          ELSE /\ last.err = "Ok"
               /\ last.gross_pnl = gross
               /\ last.net_pnl = gross + paid
               /\ ~last.is_profit

\* a gross profit was eaten by the funding paid: no profit is reported
C21_Witness ==
  /\ last.op = "calculate_pnl"
  /\ last.err = "Ok"
  /\ last.gross_pnl > 0
  /\ last.position.is_long
  /\ last.current_price > last.position.actual_entered_price
  /\ last.net_pnl = 0
  /\ ~last.is_profit

\* C22: calculate_health_ratio returns U64_MAX when actual_size or
\* current_price is 0, 0 when the equity (collateral + net_pnl in profit,
\* collateral - net_pnl, not below 0, in loss) is 0, U64_MAX when
\* required_margin = floor(position_value * maintainance_margin / BASIS_POINTS)
\* is 0, and otherwise floor(equity * BASIS_POINTS / required_margin), with
\* position_value = floor(actual_size * current_price / 10^decimals).
C22_HealthRatio ==
  last.op = "calculate_health_ratio" =>
    LET position == last.position
        equity == IF last.is_profit THEN position.collateral + last.net_pnl
                  ELSE IF last.net_pnl > position.collateral THEN 0
                  ELSE position.collateral - last.net_pnl
        position_value ==
          (position.actual_size * last.current_price)
            \div Pow10(last.token_decimals)
        required_margin ==
          (position_value * last.maintainance_margin) \div BASIS_POINTS
    IN IF position.actual_size = 0 \/ last.current_price = 0
         THEN last.err = "Ok" /\ last.health_ratio = U64_MAX
       ELSE last.err = "Ok" =>
              last.health_ratio =
                IF equity = 0 THEN 0
                ELSE IF required_margin = 0 THEN U64_MAX
                ELSE (equity * BASIS_POINTS) \div required_margin

\* the funding and the PnL of a close, computed in the claim's order: the
\* funding of the slots from the position's last_funding_slot to the closing
\* slot is added to cumulative_funding_paid, then the PnL is taken
FundedPnl(position, current_price, slot, token_decimals) ==
  LET funding ==
        calculate_funding_payment(position.actual_size, current_price,
          FUNDING_RATE_BPS, SaturatingSub(slot, position.last_funding_slot),
          token_decimals)
      paid == position.cumulative_funding_paid + funding.funding_amount
      pnl == calculate_pnl([position EXCEPT !.cumulative_funding_paid = paid],
                           current_price, token_decimals)
  IN [funding_amount |-> funding.funding_amount, net_pnl |-> pnl.net_pnl,
      is_profit |-> pnl.is_profit]

\* C23: in a successful close_position the net_pnl of the payout is computed
\* from a cumulative_funding_paid that includes the funding of every slot from
\* the position's last_funding_slot to the closing slot, and after the close
\* the position's last_funding_slot is the closing slot.
C23_FinalFundingBeforePnl ==
  [][(TradeCalled /\ last'.op = "close_position" /\ last'.err = "Ok") =>
       LET l == last'
           k == <<l.pair, l.signer, l.position_id>>
           expected == FundedPnl(positions[k], l.current_price, l.slot,
                                 markets[l.pair].decimals)
       IN /\ l.slot = clock
          /\ l.funding_amount = expected.funding_amount
          /\ l.net_pnl = expected.net_pnl
          /\ l.is_profit = expected.is_profit
          /\ positions'[k].last_funding_slot = l.slot]_vars

\* C24: calculate_rebalance_with_new_target returns a no-op (should_rebalance
\* false, the position's size and target, no profit and no excess) whenever
\* the price has not reached the target (long: current_price <
\* current_target_price; short: current_price > current_target_price); and
\* whenever should_rebalance is true, new_target_price = current_price +
\* floor(current_price * target_percentage_bps / BASIS_POINTS) for a long and
\* current_price minus that for a short, excess_to_insurance =
\* max(actual_profit - virtual_profit, 0), and the new size and leverage are
\* those of the sizing at the new target.
C24_Rebalance ==
  last.op = "calculate_rebalance_with_new_target" =>
    LET position == last.position
        token_divisor == Pow10(last.token_decimals)
        reached == IF position.is_long
                     THEN ~(last.current_price < position.current_target_price)
                   ELSE ~(last.current_price > position.current_target_price)
        price_change ==
          (last.current_price * last.target_percentage_bps) \div BASIS_POINTS
        new_target_price == IF position.is_long
                              THEN last.current_price + price_change
                            ELSE last.current_price - price_change
        current_value ==
          (position.actual_size * last.current_price) \div token_divisor
        entry_value ==
          (position.actual_size * position.actual_entered_price)
            \div token_divisor
        actual_profit ==
          IF position.is_long
            THEN (IF current_value > entry_value
                    THEN current_value - entry_value ELSE 0)
          ELSE (IF entry_value > current_value
                  THEN entry_value - current_value ELSE 0)
        price_diff ==
          IF position.is_long
            THEN (IF last.current_price > position.desired_entry_price
                    THEN last.current_price - position.desired_entry_price
                  ELSE 0)
          ELSE (IF position.desired_entry_price > last.current_price
                  THEN position.desired_entry_price - last.current_price
                ELSE 0)
        virtual_profit == (position.desired_size * price_diff) \div token_divisor
        sizing ==
          IF position.is_long
            THEN calculate_long_position(position.desired_entry_price,
                   position.desired_size, last.current_price,
                   new_target_price, position.collateral, last.token_decimals)
          ELSE calculate_short_position(position.desired_entry_price,
                 position.desired_size, last.current_price, new_target_price,
                 position.collateral, last.token_decimals)
    IN /\ ~reached =>
            /\ last.err = "Ok"
            /\ ~last.should_rebalance
            /\ last.new_actual_size = position.actual_size
            /\ last.new_target_price = position.current_target_price
            /\ last.profit_realized = 0
            /\ last.excess_to_insurance = 0
       /\ last.should_rebalance =>
            /\ last.err = "Ok"
            /\ reached
            /\ last.new_target_price = new_target_price
            /\ last.excess_to_insurance =
                 IF actual_profit > virtual_profit
                   THEN actual_profit - virtual_profit ELSE 0
            /\ sizing.err = "Ok"
            /\ last.new_actual_size = sizing.actual_size
            /\ last.new_leverage_bps = sizing.leverage_bps

\* a short that reached its target is rebalanced to a lower target, and its
\* profit beyond the expected one goes to the insurance
C24_Witness ==
  /\ last.op = "calculate_rebalance_with_new_target"
  /\ last.should_rebalance
  /\ ~last.position.is_long
  /\ last.new_target_price < last.current_price
  /\ last.excess_to_insurance > 0

\* C25: for every input and every token decimals 0..255, an arithmetic routine
\* (here the PnL, the funding payment and the long sizing) either returns the
\* exact truncated result, computed with the true 10^token_decimals, or fails
\* with MathOverflow: it never aborts and never computes with a wrapped power
\* of ten.
C25_ExactOrMathOverflow ==
  LET l == last
      d == l.token_decimals
  IN /\ l.op = "calculate_pnl" =>
          LET position == l.position
              current_value ==
                ScaledDown(position.actual_size * l.current_price, d)
              entry_value ==
                ScaledDown(position.actual_size * position.actual_entered_price,
                           d)
          IN /\ l.err \in {"Ok", "MathOverflow"}
             /\ l.err = "Ok" =>
                  l.gross_pnl = IF current_value >= entry_value
                                  THEN current_value - entry_value
                                ELSE entry_value - current_value
     /\ l.op = "calculate_funding_payment" =>
          LET notional_scaled ==
                ScaledDown(l.actual_size * l.current_price * PRECISION, d)
              periods_scaled == (l.slot * PRECISION) \div SLOTS_PER_8_HOURS
          IN /\ l.err \in {"Ok", "MathOverflow"}
             /\ l.err = "Ok" =>
                  l.funding_amount =
                    IF \/ l.actual_size = 0 \/ l.current_price = 0
                       \/ l.funding_rate_bps = 0 \/ l.slot = 0
                      THEN 0
                    ELSE (notional_scaled * Abs(l.funding_rate_bps)
                            * periods_scaled)
                           \div (BASIS_POINTS * PRECISION * PRECISION)
     /\ l.op = "calculate_position" =>
          /\ l.err # "Panic"
          /\ l.err = "Ok" =>
               l.position_value =
                 ScaledDown(l.actual_size * l.current_price, d)

\* C26: when Position::update_funding returns an error, the position's
\* last_funding_slot and cumulative_funding_paid are what they were before the
\* call.
C26_FailedFundingWritesNothing ==
  [][(last'.op = "update_funding" /\ last'.err # "Ok") =>
       /\ positions'[FundingKey].last_funding_slot =
            positions[FundingKey].last_funding_slot
       /\ positions'[FundingKey].cumulative_funding_paid =
            positions[FundingKey].cumulative_funding_paid]_vars

\* C30: over any sequence of update_funding calls a position's
\* last_funding_slot never decreases; a call whose slot is below the stored
\* last_funding_slot accrues no funding and leaves last_funding_slot as it is.
C30_FundingSlotMonotonic ==
  [][last'.op = "update_funding" =>
       LET before == positions[FundingKey]
           after == positions'[FundingKey]
       IN /\ after.last_funding_slot >= before.last_funding_slot
          /\ last'.slot < before.last_funding_slot =>
               /\ last'.funding_amount = 0
               /\ after.cumulative_funding_paid =
                    before.cumulative_funding_paid
               /\ after.last_funding_slot = before.last_funding_slot]_vars

\* C27: a position closed without a profit leaves its trader's balance no
\* higher than it was just before the position was opened.  (A trader here
\* opens one position, on the balance register gave: only open_position and
\* close_position change a balance afterwards.)
C27_NoFreeMoneyOnLoss ==
  (last.op = "close_position" /\ last.err = "Ok" /\ ~last.is_profit) =>
    balances[<<last.signer, last.mint>>].balance <= REGISTER_BALANCE

RECURSIVE SumBorrowed(_)
\* the sum of position_value - collateral of the positions whose keys are in S
SumBorrowed(S) ==
  IF S = {} THEN 0
  ELSE LET k == CHOOSE x \in S : TRUE
       IN (positions[k].position_value - positions[k].collateral)
            + SumBorrowed(S \ {k})

\* C28: in every reachable state a vault's total_borrowed is the sum of
\* position_value - collateral over the open positions funded from it; so it
\* covers what the close of any open position releases, and it is 0 when no
\* position is open.
C28_BorrowedIsSumOfOpen ==
  \A m \in Mints :
    LET open == {k \in OpenKeys : positions[k].token_mint = m}
    IN /\ pools[m].total_borrowed = SumBorrowed(open)
       /\ \A k \in open :
            /\ positions[k].position_value >= positions[k].collateral
            /\ pools[m].total_borrowed >=
                 positions[k].position_value - positions[k].collateral
       /\ open = {} => pools[m].total_borrowed = 0

\* a position that had borrowed has just been closed while another one of the
\* same vault, which has borrowed too, is still open
C28_Witness ==
  /\ last.op = "close_position"
  /\ last.err = "Ok"
  /\ last.position_value > last.collateral
  /\ \E k \in OpenKeys :
       /\ positions[k].token_mint = last.mint
       /\ positions[k].position_value > positions[k].collateral

\* C29: every open position has position_value >= collateral; an
\* open_position whose computed position_value is below the effective
\* collateral fails and leaves every account as it was, creating no position.
C29_ValueCoversCollateral ==
  [][TradeCalled /\ last'.op = "open_position" =>
       LET l == last'
           k == <<l.pair, l.signer, l.position_id>>
       IN /\ \A o \in OpenKeys' :
               positions'[o].position_value >= positions'[o].collateral
          /\ l.err = "Ok" =>
               /\ positions'[k].bump # 0
               /\ positions'[k].position_value = l.position_value
               /\ positions'[k].collateral = l.collateral
               /\ l.position_value >= l.collateral
          /\ (l.sized /\ l.position_value < l.collateral) =>
               /\ l.err # "Ok"
               /\ positions'[k].bump = 0
               /\ UNCHANGED <<pools, markets, traders, balances, positions>>]_vars

\* an open_position was rejected at the subtraction of the collateral from a
\* smaller position value
C29_Witness ==
  /\ last.op = "open_position"
  /\ last.sized
  /\ last.position_value > 0
  /\ last.position_value < last.collateral
  /\ last.err = "MathOverflow"

====
